---- MODULE Spec2Model ----
(***************************************************************************)
(* Model of the EE871 E2 driver (EE871.cpp): lifecycle (begin/tick/end),   *)
(* the health state machine (_updateHealth), the raw and tracked frame     *)
(* transactions and the public device operations built on them.            *)
(*                                                                         *)
(* The driver object is the record variable drv, whose fields carry the    *)
(* names of the C++ members without the leading underscore.  Every public  *)
(* method is one action that runs the whole method.  The bus and the       *)
(* device are the environment: each call is given a Bus record saying what *)
(* the lines read, which transaction of the call (if any) fails and how,   *)
(* and what device answers.  A frame transaction is one step of a method;  *)
(* its bit-level signalling is abstracted to its outcome.                  *)
(*                                                                         *)
(* After a call returns, the caller observes the returned status (ret),    *)
(* whether a HAL callback was invoked (hal) and the operation's name (op); *)
(* the Return action then takes the caller back to idle.                   *)
(***************************************************************************)
EXTENDS Integers, Sequences, FiniteSets, TLC

VARIABLES
  drv,   \* the EE871 instance (its data members)
  op,    \* name of the public method that has just returned, "none" when idle
  arg,   \* the arguments it was called with
  ret,   \* the Status that method returned
  hal,   \* TRUE iff the method invoked at least one HAL callback
  wire   \* what the method did on the lines, in order: each sample it took
         \* of both lines (named by what it read), the clock pulses and the
         \* STOP of a rescue sequence, each frame it started, and after a
         \* frame that failed the mark FAILED
  ,
  log,   \* the frames and flash delays of the method, in order, with what
         \* the master put in them
  sensor \* the device on the bus between two calls, where a session with
         \* one device is followed; a call that draws its bus leaves it alone
  ,
  pins   \* the two lines where a call is followed one HAL callback at a
         \* time: the levels the master last set, what the slave holds low,
         \* and the position of the call in progress

vars == <<drv, op, arg, ret, hal, wire, log, sensor, pins>>

-----------------------------------------------------------------------------
(* Bounds of the model *)

\* Stands for std::numeric_limits<uint8_t>::max(): width of _consecutiveFailures
\* and of Config::offlineThreshold, scaled down so that saturation is reached.
Uint8Max == 2

\* Stands for std::numeric_limits<uint32_t>::max(): width of _totalFailures and
\* _totalSuccess, scaled down (kept above Uint8Max, as 2^32-1 is above 255).
Uint32Max == 3

\* Largest tick value the caller passes to tick().
MaxTick == 1

\* The failing transaction of a call, if any, is among its first MaxFailAt.
MaxFailAt == 6

-----------------------------------------------------------------------------
(* Status.h *)

Status(codeIn, detailIn, msgIn) == [code |-> codeIn, detail |-> detailIn, msg |-> msgIn]

StatusOk == Status("OK", 0, "OK")

Error(err, message, detailCode) == Status(err, detailCode, message)

ok(st) == st.code = "OK"

-----------------------------------------------------------------------------
(* CommandTable.h *)

DEVICE_ADDRESS_MAX == 7
WRITE_DELAY_MAX_MS == 5000
INTERVAL_WRITE_DELAY_MAX_MS == 5000
BUS_RESET_CLOCKS == 9

MAIN_TYPE_LO == 1
MAIN_CUSTOM_WRITE == 1
MAIN_TYPE_SUB == 2
MAIN_AVAIL_MEAS == 3
MAIN_TYPE_HI == 4
MAIN_CUSTOM_PTR == 5
MAIN_STATUS == 7
MAIN_MV3_LO == 12
MAIN_MV3_HI == 13
MAIN_MV4_LO == 14
MAIN_MV4_HI == 15

SENSOR_GROUP_ID == 871
SENSOR_SUBGROUP_ID == 9

CUSTOM_MEMORY_SIZE == 256
CUSTOM_FW_VERSION_MAIN == 0
CUSTOM_FW_VERSION_SUB == 1
CUSTOM_E2_SPEC_VERSION == 2
CUSTOM_OPERATING_FUNCTIONS == 7
CUSTOM_OPERATING_MODE_SUPPORT == 8
CUSTOM_SPECIAL_FEATURES == 9
CUSTOM_CO2_OFFSET_L == 88
CUSTOM_CO2_OFFSET_H == 89
CUSTOM_CO2_GAIN_L == 90
CUSTOM_CO2_GAIN_H == 91
CUSTOM_CO2_POINT_L_L == 92
CUSTOM_SERIAL_START == 160
CUSTOM_SERIAL_LEN == 16
CUSTOM_PART_NAME_START == 176
CUSTOM_PART_NAME_LEN == 16
CUSTOM_BUS_ADDRESS == 192
CUSTOM_ERROR_CODE == 193
CUSTOM_INTERVAL_L == 198
CUSTOM_INTERVAL_H == 199
CUSTOM_CO2_INTERVAL_FACTOR == 203
CUSTOM_FILTER_CO2 == 211
CUSTOM_OPERATING_MODE == 216
CUSTOM_AUTO_ADJUST == 217

INTERVAL_MIN_DECISEC == 150
INTERVAL_MAX_DECISEC == 36000
BUS_ADDRESS_MAX == 7

FEATURE_SERIAL_NUMBER == 1
FEATURE_PART_NAME == 2
FEATURE_ADDRESS_CONFIG == 4
FEATURE_GLOBAL_INTERVAL == 16
FEATURE_SPECIFIC_INTERVAL == 32
FEATURE_FILTER_CONFIG == 64
FEATURE_ERROR_CODE == 128
MODE_SUPPORT_LOW_POWER == 1
MODE_SUPPORT_E2_PRIORITY == 2
SPECIAL_FEATURE_AUTO_ADJUST == 1
OPERATING_MODE_MEASUREMODE_MASK == 1
OPERATING_MODE_E2_PRIORITY_MASK == 2

\* (x & mask) != 0 for a single-bit mask
HasBit(x, mask) == (x \div mask) % 2 = 1

\* (main << MAIN_SHIFT) | ((addr & 0x07) << ADDR_SHIFT) | rw, cast to uint8_t
makeControlByte(mainCommandNibble, deviceAddress, read) ==
  (mainCommandNibble * 16 + (deviceAddress % 8) * 2 + (IF read THEN 1 ELSE 0)) % 256

makeControlRead(mainCommandNibble, deviceAddress) ==
  makeControlByte(mainCommandNibble, deviceAddress, TRUE)

makeControlWrite(mainCommandNibble, deviceAddress) ==
  makeControlByte(mainCommandNibble, deviceAddress, FALSE)

-----------------------------------------------------------------------------
(* Config.h *)

\* A callback field is TRUE when the pointer is set, FALSE when it is nullptr.
DefaultConfig ==
  [ setScl |-> FALSE, setSda |-> FALSE, readScl |-> FALSE, readSda |-> FALSE,
    delayUs |-> FALSE,
    deviceAddress |-> 0,
    clockLowUs |-> 100, clockHighUs |-> 100,
    startHoldUs |-> 100, stopHoldUs |-> 100,
    bitTimeoutUs |-> 25000, byteTimeoutUs |-> 35000,
    writeDelayMs |-> 150, intervalWriteDelayMs |-> 300,
    offlineThreshold |-> 5 ]


-----------------------------------------------------------------------------
(* EE871.h: DriverState and the data members of class EE871 *)

DriverStates == {"UNINIT", "READY", "DEGRADED", "OFFLINE"}

\* The object as constructed: the default member initialisers.  The three
\* cached feature bytes are declared in a header that is not part of the
\* sources at hand; they start at zero.
NewDriver ==
  [ config |-> DefaultConfig,
    initialized |-> FALSE,
    driverState |-> "UNINIT",
    nowMs |-> 0,
    lastOkMs |-> 0,
    lastErrorMs |-> 0,
    lastError |-> StatusOk,
    consecutiveFailures |-> 0,
    totalFailures |-> 0,
    totalSuccess |-> 0,
    operatingFunctions |-> 0,
    operatingModeSupport |-> 0,
    specialFeatures |-> 0 ]

isOnline(d) == d.driverState = "READY" \/ d.driverState = "DEGRADED"

\* Feature accessors over the cache written by begin().
hasSerialNumber(d) == HasBit(d.operatingFunctions, FEATURE_SERIAL_NUMBER)
hasPartName(d) == HasBit(d.operatingFunctions, FEATURE_PART_NAME)
hasAddressConfig(d) == HasBit(d.operatingFunctions, FEATURE_ADDRESS_CONFIG)
hasGlobalInterval(d) == HasBit(d.operatingFunctions, FEATURE_GLOBAL_INTERVAL)
hasSpecificInterval(d) == HasBit(d.operatingFunctions, FEATURE_SPECIFIC_INTERVAL)
hasFilterConfig(d) == HasBit(d.operatingFunctions, FEATURE_FILTER_CONFIG)
hasErrorCode(d) == HasBit(d.operatingFunctions, FEATURE_ERROR_CODE)
hasLowPowerMode(d) == HasBit(d.operatingModeSupport, MODE_SUPPORT_LOW_POWER)
hasE2Priority(d) == HasBit(d.operatingModeSupport, MODE_SUPPORT_E2_PRIORITY)
hasAutoAdjust(d) == HasBit(d.specialFeatures, SPECIAL_FEATURE_AUTO_ADJUST)

-----------------------------------------------------------------------------
(* The environment: bus lines and device *)

Bytes == 0..255

\* A device: its identity registers and its custom memory with the read
\* pointer.  A device that does not store writes (stores = FALSE) makes the
\* read-back verification fail.
Device(groupId, subgroupId, ops, modeSup, special, interval, fill, doesStore) ==
  [ group |-> groupId, subgroup |-> subgroupId,
    mem |-> [a \in Bytes |->
               CASE a = CUSTOM_OPERATING_FUNCTIONS -> ops
                 [] a = CUSTOM_OPERATING_MODE_SUPPORT -> modeSup
                 [] a = CUSTOM_SPECIAL_FEATURES -> special
                 [] a = CUSTOM_INTERVAL_L -> interval % 256
                 [] a = CUSTOM_INTERVAL_H -> interval \div 256
                 [] OTHER -> fill],
    ptr |-> 0,
    stores |-> doesStore ]

\* The data byte the device sends for a read with this control byte, and the
\* device afterwards (a pointer read advances the pointer).
DevReadData(dev, controlByte) ==
  LET main == controlByte \div 16 IN
  CASE main = MAIN_TYPE_LO -> dev.group % 256
    [] main = MAIN_TYPE_HI -> dev.group \div 256
    [] main = MAIN_TYPE_SUB -> dev.subgroup
    [] main = MAIN_CUSTOM_PTR -> dev.mem[dev.ptr]
    [] OTHER -> dev.mem[main]

DevAfterRead(dev, controlByte) ==
  IF controlByte \div 16 = MAIN_CUSTOM_PTR
  THEN [dev EXCEPT !.ptr = (dev.ptr + 1) % 256]
  ELSE dev

\* The device after an acknowledged write (control, address, data).
DevAfterWrite(dev, controlByte, addressByte, dataByte) ==
  LET main == controlByte \div 16 IN
  CASE main = MAIN_CUSTOM_PTR -> [dev EXCEPT !.ptr = dataByte]
    [] main = MAIN_CUSTOM_WRITE /\ dev.stores ->
         [dev EXCEPT !.mem[addressByte] = dataByte]
    [] OTHER -> dev

FailKinds == {"timeout", "nack", "pec"}

\* What the bus does during one call.  sclEntry/sdaEntry: the first sample of
\* the lines; sclAfter/sdaAfter: the sample after a rescue sequence;
\* waitedOut: a rescue clock used up the whole bit timeout; failAt: the
\* number of the transaction of this call that fails (0: none) and failKind
\* how; dev: the device; n: transactions started so far in this call.
Bus(sclE, sdaE, sclA, sdaA, wOut, fAt, fKind, device) ==
  [ sclEntry |-> sclE, sdaEntry |-> sdaE, sclAfter |-> sclA, sdaAfter |-> sdaA,
    waitedOut |-> wOut, failAt |-> fAt, failKind |-> fKind, dev |-> device,
    n |-> 0 ]

\* A call in progress: the driver object, the bus, whether a HAL callback
\* has been invoked so far, what has been done on the lines so far, and the
\* frames and flash delays so far with what the master put in them:
\* <<"READ", control, 0, 0>>, <<"WRITE", control, address, data>> and
\* <<"SLEEP", milliseconds, 0, 0>>.
Machine(d, bus) == [d |-> d, e |-> bus, hal |-> FALSE, wire |-> <<>>, log |-> <<>>]

Logged(m, entry) == [m EXCEPT !.log = Append(m.log, entry)]

Touch(m) == [m EXCEPT !.hal = TRUE]

\* The lines between two calls.  sda, scl: the level of the last setSda and
\* setScl (TRUE releases the line); hold, pull: the slave holds SCL, SDA
\* low; stage and pc: the function in progress and the callback it is at;
\* waited, elapsed: waitedUs and *elapsedUs; samples: readSda calls of the
\* frame so far; acked: the local of that name; st: the status an abort
\* will return; sclRead, sdaRead: what the last readScl and readSda of the
\* call returned.
IdlePins ==
  [ sda |-> TRUE, scl |-> TRUE, hold |-> FALSE, pull |-> FALSE,
    stage |-> "idle", pc |-> 0, waited |-> 0, elapsed |-> 0, samples |-> 0,
    acked |-> FALSE, st |-> StatusOk, sclRead |-> "none", sdaRead |-> "none" ]

-----------------------------------------------------------------------------
(* EE871.cpp: anonymous namespace *)

kPollStepUs == 5

\* calcPecRead that leaves the control byte out of the sum.
calcPecReadDataOnly(controlByte, dataByte) == dataByte % 256

calcPecRead(controlByte, dataByte) == (controlByte + dataByte) % 256

\* calcPecWrite that leaves the address byte out of the sum.
calcPecWriteNoAddress(controlByte, addressByte, dataByte) ==
  (controlByte + dataByte) % 256

calcPecWrite(controlByte, addressByte, dataByte) ==
  (controlByte + addressByte + dataByte) % 256

\* waitSclHigh when SCL never rises: polls every kPollStepUs until
\* waitedUs >= bitTimeoutUs and returns TIMEOUT with detail = waitedUs.
waitSclHighTimeout(cfg) ==
  Error("TIMEOUT", "Clock stretch timeout",
        ((cfg.bitTimeoutUs + kPollStepUs - 1) \div kPollStepUs) * kPollStepUs)

\* sleepMs: delayMs calls of delayUs(1000).
sleepMs(m, delayMs) ==
  Logged(IF delayMs > 0 THEN Touch(m) ELSE m, <<"SLEEP", delayMs, 0, 0>>)

-----------------------------------------------------------------------------
(* EE871.cpp: transport wrappers and health *)

\* _updateHealth with the threshold comparison written > instead of >=.
updateHealthStrictThreshold(d, st) ==
  IF ~d.initialized THEN d
  ELSE IF ok(st)
  THEN [d EXCEPT !.lastOkMs = d.nowMs,
                 !.consecutiveFailures = 0,
                 !.totalSuccess = IF d.totalSuccess # Uint32Max
                                  THEN d.totalSuccess + 1 ELSE d.totalSuccess,
                 !.driverState = "READY"]
  ELSE LET cf == IF d.consecutiveFailures # Uint8Max
                 THEN d.consecutiveFailures + 1 ELSE d.consecutiveFailures
       IN [d EXCEPT !.lastErrorMs = d.nowMs,
                    !.lastError = st,
                    !.totalFailures = IF d.totalFailures # Uint32Max
                                      THEN d.totalFailures + 1 ELSE d.totalFailures,
                    !.consecutiveFailures = cf,
                    !.driverState = IF cf > d.config.offlineThreshold
                                    THEN "OFFLINE" ELSE "DEGRADED"]

\* _updateHealth in which a success does not bring an OFFLINE driver back.
updateHealthSticky(d, st) ==
  IF ~d.initialized THEN d
  ELSE IF ok(st)
  THEN [d EXCEPT !.lastOkMs = d.nowMs,
                 !.consecutiveFailures = 0,
                 !.totalSuccess = IF d.totalSuccess # Uint32Max
                                  THEN d.totalSuccess + 1 ELSE d.totalSuccess,
                 !.driverState = IF d.driverState = "OFFLINE"
                                 THEN "OFFLINE" ELSE "READY"]
  ELSE LET cf == IF d.consecutiveFailures # Uint8Max
                 THEN d.consecutiveFailures + 1 ELSE d.consecutiveFailures
       IN [d EXCEPT !.lastErrorMs = d.nowMs,
                    !.lastError = st,
                    !.totalFailures = IF d.totalFailures # Uint32Max
                                      THEN d.totalFailures + 1 ELSE d.totalFailures,
                    !.consecutiveFailures = cf,
                    !.driverState = IF cf >= d.config.offlineThreshold
                                    THEN "OFFLINE" ELSE "DEGRADED"]

\* _updateHealth whose counters wrap to zero past their maximum.
updateHealthWraps(d, st) ==
  IF ~d.initialized THEN d
  ELSE IF ok(st)
  THEN [d EXCEPT !.lastOkMs = d.nowMs,
                 !.consecutiveFailures = 0,
                 !.totalSuccess = (d.totalSuccess + 1) % (Uint32Max + 1),
                 !.driverState = "READY"]
  ELSE LET cf == (d.consecutiveFailures + 1) % (Uint8Max + 1)
       IN [d EXCEPT !.lastErrorMs = d.nowMs,
                    !.lastError = st,
                    !.totalFailures = (d.totalFailures + 1) % (Uint32Max + 1),
                    !.consecutiveFailures = cf,
                    !.driverState = IF cf >= d.config.offlineThreshold
                                    THEN "OFFLINE" ELSE "DEGRADED"]

\* EE871::_updateHealth
updateHealth(d, st) ==
  IF ~d.initialized THEN d
  ELSE IF ok(st)
  THEN [d EXCEPT !.lastOkMs = d.nowMs,
                 !.consecutiveFailures = 0,
                 !.totalSuccess = IF d.totalSuccess # Uint32Max
                                  THEN d.totalSuccess + 1 ELSE d.totalSuccess,
                 !.driverState = "READY"]
  ELSE LET cf == IF d.consecutiveFailures # Uint8Max
                 THEN d.consecutiveFailures + 1 ELSE d.consecutiveFailures
       IN [d EXCEPT !.lastErrorMs = d.nowMs,
                    !.lastError = st,
                    !.totalFailures = IF d.totalFailures # Uint32Max
                                      THEN d.totalFailures + 1 ELSE d.totalFailures,
                    !.consecutiveFailures = cf,
                    !.driverState = IF cf >= d.config.offlineThreshold
                                    THEN "OFFLINE" ELSE "DEGRADED"]

\* The element of a singleton set: { e(x) : x \in {v} } names the value v as
\* x in e, the way a local variable of the code holds a result.
The(S) == CHOOSE x \in S : TRUE

\* The transaction now starting, and whether the bus makes it fail.
StartTx(m) ==
  [m EXCEPT !.e.n = m.e.n + 1, !.hal = TRUE, !.wire = Append(m.wire, "FRAME")]
FailsNow(m, kind) == m.e.n = m.e.failAt /\ m.e.failKind = kind

\* The end of a raw transaction: a failure return is marked on the record.
EndTx(r) ==
  IF ok(r.st) THEN r ELSE [r EXCEPT !.m.wire = Append(r.m.wire, "FAILED")]

\* EE871::_readControlByteRaw.  data0 is the caller's variable before the
\* call: it is overwritten only once the data byte has been clocked in.
\* Result: [m, st, data].
readControlByteRaw(m0, controlByte, data0) ==
  The({ EndTx(
        IF FailsNow(m, "timeout")
        THEN [m |-> m, st |-> waitSclHighTimeout(m.d.config), data |-> data0]
        ELSE IF FailsNow(m, "nack")
        THEN [m |-> m, st |-> Error("NACK", "Control byte NACK", 0), data |-> data0]
        ELSE The({ LET expected == calcPecRead(controlByte, data)
                       pec == IF FailsNow(m, "pec")
                              THEN (IF expected = 0 THEN 1 ELSE 0) ELSE expected
                       m1 == [m EXCEPT !.e.dev = DevAfterRead(m.e.dev, controlByte)]
                   IN IF pec # expected
                      THEN [m |-> m1, st |-> Error("PEC_MISMATCH", "PEC mismatch", pec),
                            data |-> data]
                      ELSE [m |-> m1, st |-> StatusOk, data |-> data]
                   : data \in {DevReadData(m.e.dev, controlByte)} }))
        : m \in {Logged(StartTx(m0), <<"READ", controlByte, 0, 0>>)} })

\* _readControlByteTracked that forgets the health update.
readControlByteUntracked(m0, controlByte, data0) ==
  readControlByteRaw(m0, controlByte, data0)

\* EE871::_readControlByteTracked
readControlByteTracked(m0, controlByte, data0) ==
  The({ [r EXCEPT !.m.d = updateHealth(r.m.d, r.st)]
        : r \in {readControlByteRaw(m0, controlByte, data0)} })

\* EE871::_writeCommandRaw.  Result: [m, st].  A failure of kind "pec" is the
\* device refusing the PEC byte.
writeCommandRaw(m0, controlByte, addressByte, dataByte) ==
  The({ EndTx(
        IF FailsNow(m, "timeout")
        THEN [m |-> m, st |-> waitSclHighTimeout(m.d.config)]
        ELSE IF FailsNow(m, "nack")
        THEN [m |-> m, st |-> Error("NACK", "Control byte NACK", 0)]
        ELSE IF FailsNow(m, "pec")
        THEN [m |-> m, st |-> Error("NACK", "PEC NACK", 0)]
        ELSE [m |-> [m EXCEPT !.e.dev =
                       DevAfterWrite(m.e.dev, controlByte, addressByte, dataByte)],
              st |-> StatusOk])
        : m \in {Logged(StartTx(m0),
                         <<"WRITE", controlByte, addressByte, dataByte>>)} })

\* _writeCommandTracked that forgets the health update.
writeCommandUntracked(m0, controlByte, addressByte, dataByte) ==
  writeCommandRaw(m0, controlByte, addressByte, dataByte)

\* _writeCommandTracked that sends the frame once more after a failure.
writeCommandTrackedRetries(m0, controlByte, addressByte, dataByte) ==
  The({ IF ok(r.st) THEN [r EXCEPT !.m.d = updateHealth(r.m.d, r.st)]
        ELSE The({ [q EXCEPT !.m.d = updateHealth(q.m.d, q.st)]
                   : q \in {writeCommandRaw(
                              [r.m EXCEPT !.d = updateHealth(r.m.d, r.st)],
                              controlByte, addressByte, dataByte)} })
        : r \in {writeCommandRaw(m0, controlByte, addressByte, dataByte)} })

\* EE871::_writeCommandTracked
writeCommandTracked(m0, controlByte, addressByte, dataByte) ==
  The({ [r EXCEPT !.m.d = updateHealth(r.m.d, r.st)]
        : r \in {writeCommandRaw(m0, controlByte, addressByte, dataByte)} })

\* The rescue sequence written out in EE871::begin and in EE871::busReset:
\* SDA released, then clock pulses (SCL low, SCL high, wait for it to rise).
\* rescueClocks issues `clocks` of them; rescueStop is the STOP that follows.
rescueClocks(m, clocks) ==
  [m EXCEPT !.hal = TRUE, !.wire = m.wire \o [i \in 1..clocks |-> "CLOCK"]]

rescueStop(m) == [m EXCEPT !.hal = TRUE, !.wire = Append(m.wire, "STOP")]

\* readScl and readSda as used to test for an idle bus: what was read.
LineSample(scl, sda) ==
  IF scl /\ sda THEN "IDLE"
  ELSE IF scl THEN "SDA_LOW"
  ELSE IF sda THEN "SCL_LOW"
  ELSE "BOTH_LOW"

sampleLines(m, scl, sda) ==
  [m EXCEPT !.hal = TRUE, !.wire = Append(m.wire, LineSample(scl, sda))]

-----------------------------------------------------------------------------
(* EE871.cpp: lifecycle *)

NotInitialized == Error("NOT_INITIALIZED", "Driver not initialized", 0)

\* The configuration checks without the limits on the flash-commit delays.
validateConfigNoDelayLimit(config) ==
  IF ~config.setScl \/ ~config.setSda \/ ~config.readScl \/ ~config.readSda
     \/ ~config.delayUs
  THEN Error("INVALID_CONFIG", "Missing E2 callbacks", 0)
  ELSE IF config.deviceAddress > DEVICE_ADDRESS_MAX
  THEN Error("INVALID_CONFIG", "Invalid device address", 0)
  ELSE IF config.clockLowUs < 100 \/ config.clockHighUs < 100
  THEN Error("INVALID_CONFIG", "Clock timing below spec", 0)
  ELSE IF config.startHoldUs < 4 \/ config.stopHoldUs < 4
  THEN Error("INVALID_CONFIG", "Start/stop hold below spec", 0)
  ELSE IF config.bitTimeoutUs = 0 \/ config.byteTimeoutUs = 0
  THEN Error("INVALID_CONFIG", "Timeouts must be non-zero", 0)
  ELSE IF config.byteTimeoutUs < config.bitTimeoutUs
  THEN Error("INVALID_CONFIG", "byteTimeoutUs must be >= bitTimeoutUs", 0)
  ELSE IF config.offlineThreshold = 0
  THEN Error("INVALID_CONFIG", "offlineThreshold must be > 0", 0)
  ELSE StatusOk

\* The configuration checks of EE871::begin, in the order of the code: the
\* status of the first check that fails, StatusOk when all pass.
validateConfig(config) ==
  IF ~config.setScl \/ ~config.setSda \/ ~config.readScl \/ ~config.readSda
     \/ ~config.delayUs
  THEN Error("INVALID_CONFIG", "Missing E2 callbacks", 0)
  ELSE IF config.deviceAddress > DEVICE_ADDRESS_MAX
  THEN Error("INVALID_CONFIG", "Invalid device address", 0)
  ELSE IF config.clockLowUs < 100 \/ config.clockHighUs < 100
  THEN Error("INVALID_CONFIG", "Clock timing below spec", 0)
  ELSE IF config.startHoldUs < 4 \/ config.stopHoldUs < 4
  THEN Error("INVALID_CONFIG", "Start/stop hold below spec", 0)
  ELSE IF config.bitTimeoutUs = 0 \/ config.byteTimeoutUs = 0
  THEN Error("INVALID_CONFIG", "Timeouts must be non-zero", 0)
  ELSE IF config.byteTimeoutUs < config.bitTimeoutUs
  THEN Error("INVALID_CONFIG", "byteTimeoutUs must be >= bitTimeoutUs", 0)
  ELSE IF config.offlineThreshold = 0
  THEN Error("INVALID_CONFIG", "offlineThreshold must be > 0", 0)
  ELSE IF config.writeDelayMs > WRITE_DELAY_MAX_MS
  THEN Error("INVALID_CONFIG", "writeDelayMs exceeds safe limit", 0)
  ELSE IF config.intervalWriteDelayMs > INTERVAL_WRITE_DELAY_MAX_MS
  THEN Error("INVALID_CONFIG", "intervalWriteDelayMs exceeds safe limit", 0)
  ELSE StatusOk

\* EE871::begin, lines 228-237: the configuration is stored and the health
\* fields are reset.
beginReset(d, config) ==
  [d EXCEPT !.config = config,
            !.initialized = FALSE,
            !.driverState = "UNINIT",
            !.nowMs = 0,
            !.lastOkMs = 0,
            !.lastErrorMs = 0,
            !.lastError = StatusOk,
            !.consecutiveFailures = 0,
            !.totalFailures = 0,
            !.totalSuccess = 0]

\* One read of the feature sequence of EE871::begin: the byte at the pointer
\* is read straight into the cache field.  Result: [m, st].
beginFeatureRead(m0, field) ==
  The({ [m |-> [r.m EXCEPT !.d[field] = r.data], st |-> r.st]
        : r \in {readControlByteRaw(
                   m0, makeControlRead(MAIN_CUSTOM_PTR, m0.d.config.deviceAddress),
                   m0.d[field])} })

\* EE871::begin, lines 289-308: the feature cache is cleared, then the pointer
\* is set to 0x07 and three bytes are read straight into the cache; a failure
\* ends the sequence and is not reported.  Result: the machine afterwards.
beginFeatures(m0) ==
  The({ IF ~ok(w.st) THEN w.m
        ELSE The({ IF ~ok(r1.st) THEN r1.m
                   ELSE The({ IF ~ok(r2.st) THEN r2.m
                              ELSE beginFeatureRead(r2.m, "specialFeatures").m
                              : r2 \in {beginFeatureRead(r1.m, "operatingModeSupport")} })
                   : r1 \in {beginFeatureRead(w.m, "operatingFunctions")} })
        : w \in {writeCommandRaw(
                   [m0 EXCEPT !.d.operatingFunctions = 0,
                              !.d.operatingModeSupport = 0,
                              !.d.specialFeatures = 0],
                   makeControlWrite(MAIN_CUSTOM_PTR, m0.d.config.deviceAddress), 0,
                   CUSTOM_OPERATING_FUNCTIONS)} })

\* The identity check shared by EE871::begin (lines 270-287) and
\* EE871::probe: two raw reads and the comparison of the group id.
\* Result: [m, st].
probeRaw(m0) ==
  The({ IF ~ok(rl.st) THEN [m |-> rl.m, st |-> rl.st]
        ELSE The({ IF ~ok(rh.st) THEN [m |-> rh.m, st |-> rh.st]
                   ELSE IF rl.data + rh.data * 256 # SENSOR_GROUP_ID
                   THEN [m |-> rh.m,
                         st |-> Error("DEVICE_NOT_FOUND", "Unexpected group id",
                                      rl.data + rh.data * 256)]
                   ELSE [m |-> rh.m, st |-> StatusOk]
                   : rh \in {readControlByteRaw(
                               rl.m, makeControlRead(MAIN_TYPE_HI,
                                                     m0.d.config.deviceAddress), 0)} })
        : rl \in {readControlByteRaw(
                    m0, makeControlRead(MAIN_TYPE_LO, m0.d.config.deviceAddress), 0)} })

\* begin that runs the rescue sequence whatever the lines read at entry.
beginRescueAlways(m) ==
  sampleLines(rescueStop(rescueClocks(
                sampleLines(m, m.e.sclEntry, m.e.sdaEntry), BUS_RESET_CLOCKS)),
              m.e.sclAfter, m.e.sdaAfter)

\* EE871::begin, lines 239-267: the lines are sampled, and if one reads low
\* the rescue sequence is run, all BUS_RESET_CLOCKS pulses whatever SCL does,
\* and the lines are sampled again.
beginRescue(m) ==
  The({ IF ~m.e.sclEntry \/ ~m.e.sdaEntry
        THEN sampleLines(rescueStop(rescueClocks(m1, BUS_RESET_CLOCKS)),
                         m.e.sclAfter, m.e.sdaAfter)
        ELSE m1
        : m1 \in {sampleLines(m, m.e.sclEntry, m.e.sdaEntry)} })

\* begin that marks the driver initialised and READY before the bus check and
\* the identity check instead of after them.
beginStartMarksEarly(m0, config) ==
  The({ IF (~m0.e.sclEntry \/ ~m0.e.sdaEntry) /\ (~m0.e.sclAfter \/ ~m0.e.sdaAfter)
        THEN [m |-> mr, st |-> Error("BUS_STUCK", "Bus stuck after reset", 0)]
        ELSE The({ IF ~ok(p.st) THEN p
                   ELSE [m |-> beginFeatures(p.m), st |-> StatusOk]
                   : p \in {probeRaw(mr)} })
        : mr \in {beginRescue(Touch([m0 EXCEPT !.d =
                     [beginReset(m0.d, config) EXCEPT
                        !.initialized = TRUE, !.driverState = "READY"]]))} })

\* EE871::begin from line 228 on: reset, bus check with rescue, identity
\* check, feature cache, READY.  Result: [m, st].
beginStart(m0, config) ==
  The({ IF (~m0.e.sclEntry \/ ~m0.e.sdaEntry) /\ (~m0.e.sclAfter \/ ~m0.e.sdaAfter)
        THEN [m |-> mr, st |-> Error("BUS_STUCK", "Bus stuck after reset", 0)]
        ELSE The({ IF ~ok(p.st) THEN p
                   ELSE The({ [m |-> [mf EXCEPT !.d.initialized = TRUE,
                                                !.d.driverState = "READY"],
                               st |-> StatusOk]
                              : mf \in {beginFeatures(p.m)} })
                   : p \in {probeRaw(mr)} })
        : mr \in {beginRescue(Touch([m0 EXCEPT !.d = beginReset(m0.d, config)]))} })

\* begin that validates the configuration before it looks at _initialized.
beginValidatesFirst(m0, config) ==
  IF ~ok(validateConfig(config))
  THEN [m |-> m0, st |-> validateConfig(config)]
  ELSE IF m0.d.initialized
  THEN [m |-> m0, st |-> Error("ALREADY_INITIALIZED", "Call end() first", 0)]
  ELSE beginStart(m0, config)

\* EE871::begin.  Result: [m, st].
begin(m0, config) ==
  IF m0.d.initialized
  THEN [m |-> m0, st |-> Error("ALREADY_INITIALIZED", "Call end() first", 0)]
  ELSE IF ~ok(validateConfig(config))
  THEN [m |-> m0, st |-> validateConfig(config)]
  ELSE beginStart(m0, config)

\* EE871::tick
tick(d, nowMs) == [d EXCEPT !.nowMs = nowMs]

\* end that also clears the lifetime counters.
endClearsCounters(d) ==
  [d EXCEPT !.initialized = FALSE, !.driverState = "UNINIT",
            !.totalFailures = 0, !.totalSuccess = 0]

\* end that also forgets the last error and its time.
endClearsLastError(d) ==
  [d EXCEPT !.initialized = FALSE, !.driverState = "UNINIT",
            !.lastError = StatusOk, !.lastErrorMs = 0]

\* EE871::end
end(d) == [d EXCEPT !.initialized = FALSE, !.driverState = "UNINIT"]

-----------------------------------------------------------------------------
(* EE871.cpp: diagnostics and bus safety *)

\* probe that reports its outcome to the health tracking.
probeTracked(m0) ==
  IF ~m0.d.initialized THEN [m |-> m0, st |-> NotInitialized]
  ELSE The({ [r EXCEPT !.m.d = updateHealth(r.m.d, r.st)] : r \in {probeRaw(m0)} })

\* probe that compares only the low byte of the group.
probeChecksLowByte(m0) ==
  IF ~m0.d.initialized THEN [m |-> m0, st |-> NotInitialized]
  ELSE The({ IF ~ok(rl.st) THEN [m |-> rl.m, st |-> rl.st]
             ELSE The({ IF ~ok(rh.st) THEN [m |-> rh.m, st |-> rh.st]
                        ELSE IF rl.data # SENSOR_GROUP_ID % 256
                        THEN [m |-> rh.m,
                              st |-> Error("DEVICE_NOT_FOUND", "Unexpected group id",
                                           rl.data + rh.data * 256)]
                        ELSE [m |-> rh.m, st |-> StatusOk]
                        : rh \in {readControlByteRaw(
                                    rl.m, makeControlRead(MAIN_TYPE_HI,
                                                          m0.d.config.deviceAddress),
                                    0)} })
             : rl \in {readControlByteRaw(
                         m0, makeControlRead(MAIN_TYPE_LO, m0.d.config.deviceAddress),
                         0)} })

\* EE871::probe.  Result: [m, st].
probe(m0) ==
  IF ~m0.d.initialized THEN [m |-> m0, st |-> NotInitialized]
  ELSE probeRaw(m0)

\* EE871::busReset.  Result: [m, st].  With SCL held low (waitedOut) the
\* first pulse uses up its wait and ends the sequence.
busReset(m0) ==
  IF ~m0.d.initialized THEN [m |-> m0, st |-> NotInitialized]
  ELSE IF m0.e.waitedOut
  THEN [m |-> rescueClocks(m0, 1),
        st |-> Error("BUS_STUCK", "SCL stuck during reset", 0)]
  ELSE The({ IF ~m0.e.sclAfter \/ ~m0.e.sdaAfter
             THEN [m |-> m, st |-> Error("BUS_STUCK", "Bus stuck after reset", 0)]
             ELSE [m |-> m, st |-> StatusOk]
             : m \in {sampleLines(rescueStop(rescueClocks(m0, BUS_RESET_CLOCKS)),
                                  m0.e.sclAfter, m0.e.sdaAfter)} })

\* EE871::checkBusIdle.  Result: [m, st].
checkBusIdle(m0) ==
  IF ~m0.d.initialized THEN [m |-> m0, st |-> NotInitialized]
  ELSE The({ IF ~m0.e.sclEntry /\ ~m0.e.sdaEntry
             THEN [m |-> m, st |-> Error("BUS_STUCK", "Both SCL and SDA stuck low", 0)]
             ELSE IF ~m0.e.sclEntry
             THEN [m |-> m, st |-> Error("BUS_STUCK", "SCL stuck low", 0)]
             ELSE IF ~m0.e.sdaEntry
             THEN [m |-> m, st |-> Error("BUS_STUCK", "SDA stuck low", 0)]
             ELSE [m |-> m, st |-> StatusOk]
             : m \in {sampleLines(m0, m0.e.sclEntry, m0.e.sdaEntry)} })

-----------------------------------------------------------------------------
(* EE871.cpp: E2 protocol helpers *)

\* EE871::readControlByte.  Result: [m, st, data].
readControlByte(m0, mainCommandNibble, data0) ==
  IF ~m0.d.initialized THEN [m |-> m0, st |-> NotInitialized, data |-> data0]
  ELSE IF mainCommandNibble > 15
  THEN [m |-> m0, st |-> Error("INVALID_PARAM", "Invalid main command", 0),
        data |-> data0]
  ELSE readControlByteTracked(
         m0, makeControlRead(mainCommandNibble, m0.d.config.deviceAddress), data0)

\* readU16 that reads the high byte even when the low byte failed.
readU16ReadsOn(m0, mainCommandLow, mainCommandHigh, value0) ==
  The({ The({ IF ~ok(rl.st) THEN [m |-> rh.m, st |-> rl.st, value |-> value0]
              ELSE IF ~ok(rh.st) THEN [m |-> rh.m, st |-> rh.st, value |-> value0]
              ELSE [m |-> rh.m, st |-> StatusOk, value |-> rl.data + rh.data * 256]
              : rh \in {readControlByte(rl.m, mainCommandHigh, 0)} })
        : rl \in {readControlByte(m0, mainCommandLow, 0)} })

\* readU16 that reads the high byte first.
readU16HighFirst(m0, mainCommandLow, mainCommandHigh, value0) ==
  The({ IF ~ok(rh.st) THEN [m |-> rh.m, st |-> rh.st, value |-> value0]
        ELSE The({ IF ~ok(rl.st) THEN [m |-> rl.m, st |-> rl.st, value |-> value0]
                   ELSE [m |-> rl.m, st |-> StatusOk,
                         value |-> rl.data + rh.data * 256]
                   : rl \in {readControlByte(rh.m, mainCommandLow, 0)} })
        : rh \in {readControlByte(m0, mainCommandHigh, 0)} })

\* EE871::readU16.  Result: [m, st, value]; value0 is the caller's variable.
readU16(m0, mainCommandLow, mainCommandHigh, value0) ==
  The({ IF ~ok(rl.st) THEN [m |-> rl.m, st |-> rl.st, value |-> value0]
        ELSE The({ IF ~ok(rh.st) THEN [m |-> rh.m, st |-> rh.st, value |-> value0]
                   ELSE [m |-> rh.m, st |-> StatusOk,
                         value |-> rl.data + rh.data * 256]
                   : rh \in {readControlByte(rl.m, mainCommandHigh, 0)} })
        : rl \in {readControlByte(m0, mainCommandLow, 0)} })

\* setCustomPointer without its test of the initialised flag.
setCustomPointerUnchecked(m0, address) ==
  IF address > 255
  THEN [m |-> m0, st |-> Error("OUT_OF_RANGE", "Custom pointer > 0xFF", address)]
  ELSE writeCommandTracked(
         m0, makeControlWrite(MAIN_CUSTOM_PTR, m0.d.config.deviceAddress),
         address \div 256, address % 256)

\* EE871::setCustomPointer.  Result: [m, st].
setCustomPointer(m0, address) ==
  IF ~m0.d.initialized THEN [m |-> m0, st |-> NotInitialized]
  ELSE IF address > 255
  THEN [m |-> m0, st |-> Error("OUT_OF_RANGE", "Custom pointer > 0xFF", address)]
  ELSE writeCommandTracked(
         m0, makeControlWrite(MAIN_CUSTOM_PTR, m0.d.config.deviceAddress),
         address \div 256, address % 256)

\* The loop of customRead going on to the next byte after a read failed.
RECURSIVE customReadLoopReadsOn(_, _, _, _)
customReadLoopReadsOn(m0, i, len, buf) ==
  IF i > len THEN [m |-> m0, st |-> StatusOk, buf |-> buf]
  ELSE The({ The({ IF ~ok(r.st) THEN [n EXCEPT !.st = r.st] ELSE n
                   : n \in {customReadLoopReadsOn(r.m, i + 1, len,
                                                   [buf EXCEPT ![i] = r.data])} })
             : r \in {readControlByte(m0, MAIN_CUSTOM_PTR, buf[i])} })

\* The loop of EE871::customRead(address, buf, len) from index i on.
\* Result: [m, st, buf].
RECURSIVE customReadLoop(_, _, _, _)
customReadLoop(m0, i, len, buf) ==
  IF i > len THEN [m |-> m0, st |-> StatusOk, buf |-> buf]
  ELSE The({ IF ~ok(r.st)
             THEN [m |-> r.m, st |-> r.st, buf |-> [buf EXCEPT ![i] = r.data]]
             ELSE The({ customReadLoop(r.m, i + 1, len, b)
                        : b \in {[buf EXCEPT ![i] = r.data]} })
             : r \in {readControlByte(m0, MAIN_CUSTOM_PTR, buf[i])} })

\* EE871::customRead(address, buf, len); buf is the caller's buffer as a
\* sequence, or <<>> with bufNull for a null pointer.  Result: [m, st, buf].
customReadBlock(m0, address, bufNull, buf, len) ==
  IF bufNull \/ len = 0
  THEN [m |-> m0, st |-> Error("INVALID_PARAM", "Invalid buffer", 0), buf |-> buf]
  ELSE IF len > CUSTOM_MEMORY_SIZE - address
  THEN [m |-> m0, st |-> Error("OUT_OF_RANGE", "Read exceeds custom memory map", 0),
        buf |-> buf]
  ELSE The({ IF ~ok(p.st) THEN [m |-> p.m, st |-> p.st, buf |-> buf]
             ELSE customReadLoop(p.m, 1, len, buf)
             : p \in {setCustomPointer(m0, address)} })

\* EE871::customRead(address, data).  Result: [m, st, data].
customRead(m0, address, data0) ==
  The({ [m |-> r.m, st |-> r.st, data |-> r.buf[1]]
        : r \in {customReadBlock(m0, address, FALSE, <<data0>>, 1)} })

\* The verification of EE871::writeMeasurementInterval: both bytes are read
\* back and compared.
verifyIntervalPair(m0, intervalDeciSeconds) ==
  The({ IF ~ok(v1.st) THEN [m |-> v1.m, st |-> v1.st]
        ELSE The({ IF ~ok(v2.st) THEN [m |-> v2.m, st |-> v2.st]
                   ELSE IF v1.data + v2.data * 256 # intervalDeciSeconds
                   THEN [m |-> v2.m,
                         st |-> Error("E2_ERROR", "Interval verify failed",
                                      v1.data + v2.data * 256)]
                   ELSE [m |-> v2.m, st |-> StatusOk]
                   : v2 \in {customRead(v1.m, CUSTOM_INTERVAL_H, 0)} })
        : v1 \in {customRead(m0, CUSTOM_INTERVAL_L, 0)} })

\* The part of EE871::writeMeasurementInterval after its range check: the two
\* bytes are written, the flash delay passes, the pair is verified.
writeIntervalPair(m0, intervalDeciSeconds) ==
  The({ IF ~ok(w1.st) THEN [m |-> w1.m, st |-> w1.st]
        ELSE The({ IF ~ok(w2.st) THEN [m |-> w2.m, st |-> w2.st]
                   ELSE verifyIntervalPair(
                          sleepMs(w2.m, w2.m.d.config.intervalWriteDelayMs),
                          intervalDeciSeconds)
                   : w2 \in {writeCommandTracked(
                               w1.m, makeControlWrite(MAIN_CUSTOM_WRITE,
                                                      m0.d.config.deviceAddress),
                               CUSTOM_INTERVAL_H, intervalDeciSeconds \div 256)} })
        : w1 \in {writeCommandTracked(
                    m0, makeControlWrite(MAIN_CUSTOM_WRITE, m0.d.config.deviceAddress),
                    CUSTOM_INTERVAL_L, intervalDeciSeconds % 256)} })

\* writeMeasurementInterval with the range check ahead of the feature gate.
writeMeasurementIntervalRangeFirst(m0, intervalDeciSeconds) ==
  IF ~m0.d.initialized THEN [m |-> m0, st |-> NotInitialized]
  ELSE IF intervalDeciSeconds < INTERVAL_MIN_DECISEC
          \/ intervalDeciSeconds > INTERVAL_MAX_DECISEC
  THEN [m |-> m0, st |-> Error("OUT_OF_RANGE", "Interval must be 150-36000 (15-3600s)",
                               intervalDeciSeconds)]
  ELSE IF ~hasGlobalInterval(m0.d)
  THEN [m |-> m0, st |-> Error("NOT_SUPPORTED", "Global interval not supported", 0)]
  ELSE writeIntervalPair(m0, intervalDeciSeconds)

\* EE871::writeMeasurementInterval.  Result: [m, st].
writeMeasurementInterval(m0, intervalDeciSeconds) ==
  IF ~m0.d.initialized THEN [m |-> m0, st |-> NotInitialized]
  ELSE IF ~hasGlobalInterval(m0.d)
  THEN [m |-> m0, st |-> Error("NOT_SUPPORTED", "Global interval not supported", 0)]
  ELSE IF intervalDeciSeconds < INTERVAL_MIN_DECISEC
          \/ intervalDeciSeconds > INTERVAL_MAX_DECISEC
  THEN [m |-> m0, st |-> Error("OUT_OF_RANGE", "Interval must be 150-36000 (15-3600s)",
                               intervalDeciSeconds)]
  ELSE writeIntervalPair(m0, intervalDeciSeconds)

\* customWrite that reads back at once, without the flash delay.
customWriteNoDelay(m0, address, value) ==
  IF ~m0.d.initialized THEN [m |-> m0, st |-> NotInitialized]
  ELSE IF address = CUSTOM_INTERVAL_L \/ address = CUSTOM_INTERVAL_H
  THEN The({ IF ~ok(o.st) THEN [m |-> o.m, st |-> o.st]
             ELSE writeMeasurementInterval(
                    o.m, IF address = CUSTOM_INTERVAL_L
                         THEN value + o.data * 256
                         ELSE o.data + value * 256)
             : o \in {customRead(m0, IF address = CUSTOM_INTERVAL_L
                                     THEN CUSTOM_INTERVAL_H ELSE CUSTOM_INTERVAL_L,
                                 0)} })
  ELSE The({ IF ~ok(w.st) THEN [m |-> w.m, st |-> w.st]
             ELSE The({ IF ~ok(v.st) THEN [m |-> v.m, st |-> v.st]
                        ELSE IF v.data # value
                        THEN [m |-> v.m,
                              st |-> Error("E2_ERROR", "Write verify failed", v.data)]
                        ELSE [m |-> v.m, st |-> StatusOk]
                        : v \in {customRead(w.m, address, 0)} })
             : w \in {writeCommandTracked(
                        m0, makeControlWrite(MAIN_CUSTOM_WRITE,
                                             m0.d.config.deviceAddress),
                        address, value)} })

\* customWrite that treats the interval pair like every other address.
customWriteLoneByte(m0, address, value) ==
  IF ~m0.d.initialized THEN [m |-> m0, st |-> NotInitialized]
  ELSE The({ IF ~ok(w.st) THEN [m |-> w.m, st |-> w.st]
             ELSE The({ IF ~ok(v.st) THEN [m |-> v.m, st |-> v.st]
                        ELSE IF v.data # value
                        THEN [m |-> v.m,
                              st |-> Error("E2_ERROR", "Write verify failed", v.data)]
                        ELSE [m |-> v.m, st |-> StatusOk]
                        : v \in {customRead(sleepMs(w.m, w.m.d.config.writeDelayMs),
                                            address, 0)} })
             : w \in {writeCommandTracked(
                        m0, makeControlWrite(MAIN_CUSTOM_WRITE,
                                             m0.d.config.deviceAddress),
                        address, value)} })

\* EE871::customWrite.  Result: [m, st].
customWrite(m0, address, value) ==
  IF ~m0.d.initialized THEN [m |-> m0, st |-> NotInitialized]
  ELSE IF address = CUSTOM_INTERVAL_L \/ address = CUSTOM_INTERVAL_H
  THEN The({ IF ~ok(o.st) THEN [m |-> o.m, st |-> o.st]
             ELSE writeMeasurementInterval(
                    o.m, IF address = CUSTOM_INTERVAL_L
                         THEN value + o.data * 256
                         ELSE o.data + value * 256)
             : o \in {customRead(m0, IF address = CUSTOM_INTERVAL_L
                                     THEN CUSTOM_INTERVAL_H ELSE CUSTOM_INTERVAL_L,
                                 0)} })
  ELSE The({ IF ~ok(w.st) THEN [m |-> w.m, st |-> w.st]
             ELSE The({ IF ~ok(v.st) THEN [m |-> v.m, st |-> v.st]
                        ELSE IF v.data # value
                        THEN [m |-> v.m,
                              st |-> Error("E2_ERROR", "Write verify failed", v.data)]
                        ELSE [m |-> v.m, st |-> StatusOk]
                        : v \in {customRead(sleepMs(w.m, w.m.d.config.writeDelayMs),
                                            address, 0)} })
             : w \in {writeCommandTracked(
                        m0, makeControlWrite(MAIN_CUSTOM_WRITE,
                                             m0.d.config.deviceAddress),
                        address, value)} })

\* EE871::readGroup.  Result: [m, st, value].
readGroup(m0, group0) ==
  The({ IF ~ok(r.st) THEN r
        ELSE IF r.value # SENSOR_GROUP_ID
        THEN [r EXCEPT !.st = Error("DEVICE_NOT_FOUND", "Unexpected group id", r.value)]
        ELSE r
        : r \in {readU16(m0, MAIN_TYPE_LO, MAIN_TYPE_HI, group0)} })

\* recover that gives up when busReset reports a stuck bus.
recoverStopsWhenStuck(m0) ==
  IF ~m0.d.initialized THEN [m |-> m0, st |-> NotInitialized]
  ELSE The({ IF ~ok(b.st) THEN b
             ELSE The({ [m |-> r.m, st |-> r.st] : r \in {readGroup(b.m, 0)} })
             : b \in {busReset(m0)} })

\* EE871::recover: the result of busReset is ignored.  Result: [m, st].
recover(m0) ==
  IF ~m0.d.initialized THEN [m |-> m0, st |-> NotInitialized]
  ELSE The({ The({ [m |-> r.m, st |-> r.st] : r \in {readGroup(b.m, 0)} })
             : b \in {busReset(m0)} })

-----------------------------------------------------------------------------
(* EE871.cpp: typed device operations.  Each result is [m, st] and, for a
   read, the value read. *)

NotSupported(message) == Error("NOT_SUPPORTED", message, 0)

Zeros(len) == [i \in 1..len |-> 0]

\* EE871::readSubgroup
readSubgroup(m0) ==
  The({ IF ~ok(r.st) THEN r
        ELSE IF r.data # SENSOR_SUBGROUP_ID
        THEN [r EXCEPT !.st = Error("DEVICE_NOT_FOUND", "Unexpected subgroup id",
                                    r.data)]
        ELSE r
        : r \in {readControlByte(m0, MAIN_TYPE_SUB, 0)} })

\* EE871::readAvailableMeasurements
readAvailableMeasurements(m0) == readControlByte(m0, MAIN_AVAIL_MEAS, 0)

\* EE871::readStatus
readStatus(m0) == readControlByte(m0, MAIN_STATUS, 0)

\* readErrorCode going to the bus whatever the cache says.
readErrorCodeUngated(m0) == customRead(m0, CUSTOM_ERROR_CODE, 0)

\* EE871::readErrorCode
readErrorCode(m0) ==
  IF ~hasErrorCode(m0.d)
  THEN [m |-> m0, st |-> NotSupported("Error code not supported"), data |-> 0]
  ELSE customRead(m0, CUSTOM_ERROR_CODE, 0)

\* EE871::readCo2Fast
readCo2Fast(m0) == readU16(m0, MAIN_MV3_LO, MAIN_MV3_HI, 0)

\* EE871::readCo2Average
readCo2Average(m0) == readU16(m0, MAIN_MV4_LO, MAIN_MV4_HI, 0)

\* EE871::readFirmwareVersion
readFirmwareVersion(m0) ==
  The({ IF ~ok(a.st) THEN [m |-> a.m, st |-> a.st, main |-> a.data, sub |-> 0]
        ELSE The({ [m |-> b.m, st |-> b.st, main |-> a.data, sub |-> b.data]
                   : b \in {customRead(a.m, CUSTOM_FW_VERSION_SUB, 0)} })
        : a \in {customRead(m0, CUSTOM_FW_VERSION_MAIN, 0)} })

\* EE871::readE2SpecVersion
readE2SpecVersion(m0) == customRead(m0, CUSTOM_E2_SPEC_VERSION, 0)

\* readOperatingFunctions that refreshes the cached byte with what it read.
readOperatingFunctionsRefreshes(m0) ==
  The({ IF ok(r.st) THEN [r EXCEPT !.m.d.operatingFunctions = r.data] ELSE r
        : r \in {customRead(m0, CUSTOM_OPERATING_FUNCTIONS, 0)} })

\* EE871::readOperatingFunctions
readOperatingFunctions(m0) == customRead(m0, CUSTOM_OPERATING_FUNCTIONS, 0)

\* EE871::readOperatingModeSupport
readOperatingModeSupport(m0) == customRead(m0, CUSTOM_OPERATING_MODE_SUPPORT, 0)

\* EE871::readSpecialFeatures
readSpecialFeatures(m0) == customRead(m0, CUSTOM_SPECIAL_FEATURES, 0)

\* EE871::readSerialNumber
readSerialNumber(m0, bufNull) ==
  IF bufNull
  THEN [m |-> m0, st |-> Error("INVALID_PARAM", "Null buffer", 0), buf |-> <<>>]
  ELSE IF ~hasSerialNumber(m0.d)
  THEN [m |-> m0, st |-> NotSupported("Serial number not supported"),
        buf |-> Zeros(CUSTOM_SERIAL_LEN)]
  ELSE customReadBlock(m0, CUSTOM_SERIAL_START, FALSE, Zeros(CUSTOM_SERIAL_LEN),
                       CUSTOM_SERIAL_LEN)

\* EE871::readPartName
readPartName(m0, bufNull) ==
  IF bufNull
  THEN [m |-> m0, st |-> Error("INVALID_PARAM", "Null buffer", 0), buf |-> <<>>]
  ELSE IF ~hasPartName(m0.d)
  THEN [m |-> m0, st |-> NotSupported("Part name not supported"),
        buf |-> Zeros(CUSTOM_PART_NAME_LEN)]
  ELSE customReadBlock(m0, CUSTOM_PART_NAME_START, FALSE,
                       Zeros(CUSTOM_PART_NAME_LEN), CUSTOM_PART_NAME_LEN)

\* The loop of EE871::writePartName from index i (0-based) on.
RECURSIVE writePartNameLoop(_, _, _)
writePartNameLoop(m0, i, buf) ==
  IF i >= CUSTOM_PART_NAME_LEN THEN [m |-> m0, st |-> StatusOk]
  ELSE The({ IF ~ok(w.st) THEN w ELSE writePartNameLoop(w.m, i + 1, buf)
             : w \in {customWrite(m0, CUSTOM_PART_NAME_START + i, buf[i + 1])} })

\* EE871::writePartName
writePartName(m0, bufNull, buf) ==
  IF bufNull THEN [m |-> m0, st |-> Error("INVALID_PARAM", "Null buffer", 0)]
  ELSE IF ~hasPartName(m0.d)
  THEN [m |-> m0, st |-> NotSupported("Part name not supported")]
  ELSE writePartNameLoop(m0, 0, buf)

\* EE871::readBusAddress
readBusAddress(m0) == customRead(m0, CUSTOM_BUS_ADDRESS, 0)

\* EE871::writeBusAddress
writeBusAddress(m0, address) ==
  IF ~hasAddressConfig(m0.d)
  THEN [m |-> m0, st |-> NotSupported("Address config not supported")]
  ELSE IF address > BUS_ADDRESS_MAX
  THEN [m |-> m0, st |-> Error("OUT_OF_RANGE", "Address must be 0-7", address)]
  ELSE customWrite(m0, CUSTOM_BUS_ADDRESS, address)

\* customReadPair that takes the first byte read as the high byte.
customReadPairHighFirst(m0, addrLow, addrHigh) ==
  The({ IF ~ok(a.st) THEN [m |-> a.m, st |-> a.st, value |-> 0]
        ELSE The({ IF ~ok(b.st) THEN [m |-> b.m, st |-> b.st, value |-> 0]
                   ELSE [m |-> b.m, st |-> StatusOk, value |-> a.data * 256 + b.data]
                   : b \in {customRead(a.m, addrHigh, 0)} })
        : a \in {customRead(m0, addrLow, 0)} })

\* The shape shared by the reads of a little-endian pair of custom bytes.
\* Result: [m, st, value].
customReadPair(m0, addrLow, addrHigh) ==
  The({ IF ~ok(a.st) THEN [m |-> a.m, st |-> a.st, value |-> 0]
        ELSE The({ IF ~ok(b.st) THEN [m |-> b.m, st |-> b.st, value |-> 0]
                   ELSE [m |-> b.m, st |-> StatusOk, value |-> a.data + b.data * 256]
                   : b \in {customRead(a.m, addrHigh, 0)} })
        : a \in {customRead(m0, addrLow, 0)} })

\* EE871::readMeasurementInterval
readMeasurementInterval(m0) == customReadPair(m0, CUSTOM_INTERVAL_L, CUSTOM_INTERVAL_H)

\* EE871::readCo2IntervalFactor; the value is the byte as int8_t.
readCo2IntervalFactor(m0) ==
  The({ [m |-> r.m, st |-> r.st,
         value |-> IF ~ok(r.st) THEN 0
                   ELSE IF r.data > 127 THEN r.data - 256 ELSE r.data]
        : r \in {customRead(m0, CUSTOM_CO2_INTERVAL_FACTOR, 0)} })

\* EE871::writeCo2IntervalFactor; factor is an int8_t.
writeCo2IntervalFactor(m0, factor) ==
  IF ~hasSpecificInterval(m0.d)
  THEN [m |-> m0, st |-> NotSupported("Specific interval not supported")]
  ELSE customWrite(m0, CUSTOM_CO2_INTERVAL_FACTOR, (factor + 256) % 256)

\* EE871::readCo2Filter
readCo2Filter(m0) == customRead(m0, CUSTOM_FILTER_CO2, 0)

\* EE871::writeCo2Filter
writeCo2Filter(m0, filter) ==
  IF ~hasFilterConfig(m0.d)
  THEN [m |-> m0, st |-> NotSupported("Filter config not supported")]
  ELSE customWrite(m0, CUSTOM_FILTER_CO2, filter)

\* EE871::readOperatingMode
readOperatingMode(m0) == customRead(m0, CUSTOM_OPERATING_MODE, 0)

\* writeOperatingMode with the range check ahead of the support flags.
writeOperatingModeRangeFirst(m0, mode) ==
  IF mode > 3
  THEN [m |-> m0, st |-> Error("OUT_OF_RANGE", "Invalid mode bits", mode)]
  ELSE IF HasBit(mode, OPERATING_MODE_MEASUREMODE_MASK) /\ ~hasLowPowerMode(m0.d)
  THEN [m |-> m0, st |-> NotSupported("Low power mode not supported")]
  ELSE IF HasBit(mode, OPERATING_MODE_E2_PRIORITY_MASK) /\ ~hasE2Priority(m0.d)
  THEN [m |-> m0, st |-> NotSupported("E2 priority not supported")]
  ELSE customWrite(m0, CUSTOM_OPERATING_MODE, mode)

\* EE871::writeOperatingMode
writeOperatingMode(m0, mode) ==
  IF HasBit(mode, OPERATING_MODE_MEASUREMODE_MASK) /\ ~hasLowPowerMode(m0.d)
  THEN [m |-> m0, st |-> NotSupported("Low power mode not supported")]
  ELSE IF HasBit(mode, OPERATING_MODE_E2_PRIORITY_MASK) /\ ~hasE2Priority(m0.d)
  THEN [m |-> m0, st |-> NotSupported("E2 priority not supported")]
  ELSE IF mode > 3
  THEN [m |-> m0, st |-> Error("OUT_OF_RANGE", "Invalid mode bits", mode)]
  ELSE customWrite(m0, CUSTOM_OPERATING_MODE, mode)

\* EE871::readAutoAdjustStatus
readAutoAdjustStatus(m0) ==
  The({ [m |-> r.m, st |-> r.st, running |-> ok(r.st) /\ HasBit(r.data, 1)]
        : r \in {customRead(m0, CUSTOM_AUTO_ADJUST, 0)} })

\* EE871::startAutoAdjust
startAutoAdjust(m0) ==
  IF ~hasAutoAdjust(m0.d)
  THEN [m |-> m0, st |-> NotSupported("Auto adjust not supported")]
  ELSE customWrite(m0, CUSTOM_AUTO_ADJUST, 1)

\* The shape shared by the writes of a little-endian pair of custom bytes.
customWritePair(m0, addrLow, addrHigh, raw) ==
  The({ IF ~ok(a.st) THEN a ELSE customWrite(a.m, addrHigh, raw \div 256)
        : a \in {customWrite(m0, addrLow, raw % 256)} })

\* EE871::readCo2Offset; the value is the pair as int16_t.
readCo2Offset(m0) ==
  The({ [r EXCEPT !.value = IF r.value > 32767 THEN r.value - 65536 ELSE r.value]
        : r \in {customReadPair(m0, CUSTOM_CO2_OFFSET_L, CUSTOM_CO2_OFFSET_H)} })

\* EE871::writeCo2Offset; offset is an int16_t.
writeCo2Offset(m0, offset) ==
  customWritePair(m0, CUSTOM_CO2_OFFSET_L, CUSTOM_CO2_OFFSET_H, (offset + 65536) % 65536)

\* EE871::readCo2Gain
readCo2Gain(m0) == customReadPair(m0, CUSTOM_CO2_GAIN_L, CUSTOM_CO2_GAIN_H)

\* EE871::writeCo2Gain
writeCo2Gain(m0, gain) ==
  customWritePair(m0, CUSTOM_CO2_GAIN_L, CUSTOM_CO2_GAIN_H, gain)

\* EE871::readCo2CalPoints
readCo2CalPoints(m0) ==
  The({ [m |-> r.m, st |-> r.st,
         lower |-> IF ok(r.st) THEN r.buf[1] + r.buf[2] * 256 ELSE 0,
         upper |-> IF ok(r.st) THEN r.buf[3] + r.buf[4] * 256 ELSE 0]
        : r \in {customReadBlock(m0, CUSTOM_CO2_POINT_L_L, FALSE, Zeros(4), 4)} })

-----------------------------------------------------------------------------
(* Inputs: configurations, devices, bus behaviours, arguments *)

\* A valid configuration with the default timing and all callbacks set.
TypicalConfig ==
  [DefaultConfig EXCEPT !.setScl = TRUE, !.setSda = TRUE, !.readScl = TRUE,
                        !.readSda = TRUE, !.delayUs = TRUE,
                        !.offlineThreshold = 2]

\* A valid configuration with every checked field on its boundary.
BoundaryConfig ==
  [TypicalConfig EXCEPT !.deviceAddress = 7,
                        !.clockLowUs = 100, !.clockHighUs = 100,
                        !.startHoldUs = 4, !.stopHoldUs = 4,
                        !.bitTimeoutUs = 25000, !.byteTimeoutUs = 25000,
                        !.writeDelayMs = 5000, !.intervalWriteDelayMs = 5000,
                        !.offlineThreshold = 1]

\* A valid configuration whose byte timeout is shorter than the nine clocks
\* of a byte (9 * (kDataSetupUs + clockHighUs + clockLowUs) = 1890 us) and
\* whose bit timeout is two polls.
TightConfig ==
  [TypicalConfig EXCEPT !.bitTimeoutUs = 10, !.byteTimeoutUs = 1000]

\* The same with a byte timeout no byte reaches.
ShortBitConfig ==
  [TypicalConfig EXCEPT !.deviceAddress = 7, !.bitTimeoutUs = 10]

\* TypicalConfig with one field (or the two timeouts) off its valid range.
InvalidConfigs ==
  { DefaultConfig,
    [TypicalConfig EXCEPT !.setScl = FALSE],
    [TypicalConfig EXCEPT !.setSda = FALSE],
    [TypicalConfig EXCEPT !.readScl = FALSE],
    [TypicalConfig EXCEPT !.readSda = FALSE],
    [TypicalConfig EXCEPT !.delayUs = FALSE],
    [TypicalConfig EXCEPT !.deviceAddress = 8],
    [TypicalConfig EXCEPT !.clockLowUs = 99],
    [TypicalConfig EXCEPT !.clockHighUs = 99],
    [TypicalConfig EXCEPT !.startHoldUs = 3],
    [TypicalConfig EXCEPT !.stopHoldUs = 3],
    [TypicalConfig EXCEPT !.bitTimeoutUs = 0],
    [TypicalConfig EXCEPT !.byteTimeoutUs = 0],
    [TypicalConfig EXCEPT !.bitTimeoutUs = 0, !.byteTimeoutUs = 0],
    [TypicalConfig EXCEPT !.byteTimeoutUs = 24999],
    [TypicalConfig EXCEPT !.offlineThreshold = 0],
    [TypicalConfig EXCEPT !.writeDelayMs = 5001],
    [TypicalConfig EXCEPT !.intervalWriteDelayMs = 5001],
    [BoundaryConfig EXCEPT !.deviceAddress = 255],
    [BoundaryConfig EXCEPT !.clockHighUs = 0] }

ConfigInputs == {TypicalConfig, BoundaryConfig} \cup InvalidConfigs

\* An EE871 with every feature, one with none, one of another type, two
\* whose flash does not take writes (custom memory all 0 and all 77), and
\* one whose group differs in the high byte only.
GoodDevice == Device(SENSOR_GROUP_ID, SENSOR_SUBGROUP_ID, 255, 3, 1, 200, 0, TRUE)
BareDevice == Device(SENSOR_GROUP_ID, SENSOR_SUBGROUP_ID, 0, 0, 0, 200, 0, TRUE)
OtherDevice == Device(872, 10, 255, 3, 1, 200, 0, TRUE)
DeafDevice == Device(SENSOR_GROUP_ID, SENSOR_SUBGROUP_ID, 255, 3, 1, 200, 0, FALSE)
StaleDevice == Device(SENSOR_GROUP_ID, SENSOR_SUBGROUP_ID, 255, 3, 1, 200, 77, FALSE)
HighOtherDevice == Device(SENSOR_GROUP_ID + 256, SENSOR_SUBGROUP_ID, 255, 3, 1, 200, 0, TRUE)

\* GoodDevice with measurement values: MV3 = 500 (0x01F4), MV4 = 1000
\* (0x03E8).
MeasuringDevice ==
  [GoodDevice EXCEPT !.mem = [a \in Bytes |->
                                CASE a = MAIN_MV3_LO -> 244
                                  [] a = MAIN_MV3_HI -> 1
                                  [] a = MAIN_MV4_LO -> 232
                                  [] a = MAIN_MV4_HI -> 3
                                  [] OTHER -> GoodDevice.mem[a]]]

Min(a, b) == IF a < b THEN a ELSE b

\* No failure, or a failure of each kind at one of the first k transactions.
Faults(k) ==
  {[at |-> 0, kind |-> "nack"]}
    \cup {[at |-> i, kind |-> kd] : i \in 1..Min(k, MaxFailAt), kd \in FailKinds}

\* Idle lines and a device; at most k transactions matter.
TxBuses(k, devices) ==
  { Bus(TRUE, TRUE, TRUE, TRUE, FALSE, f.at, f.kind, dev) :
      f \in Faults(k), dev \in devices }

\* Idle lines and a device; no failure, or a NACK at one of the first k
\* transactions.
NackBuses(k) ==
  { Bus(TRUE, TRUE, TRUE, TRUE, FALSE, at, "nack", GoodDevice) : at \in 0..k }

\* The line samples checkBusIdle can take.
LineBuses ==
  { Bus(scl, sda, TRUE, TRUE, FALSE, 0, "nack", GoodDevice) :
      scl \in BOOLEAN, sda \in BOOLEAN }

\* What a rescue sequence can meet: a clock that uses up its wait, and the
\* lines afterwards.
RescueLines ==
  { <<TRUE, TRUE, TRUE>>, <<FALSE, TRUE, TRUE>>, <<FALSE, FALSE, TRUE>>,
    <<FALSE, TRUE, FALSE>>, <<FALSE, FALSE, FALSE>> }

ResetBuses(buses) ==
  { [b EXCEPT !.waitedOut = l[1], !.sclAfter = l[2], !.sdaAfter = l[3]] :
      l \in RescueLines, b \in buses }

\* Idle lines and a device that answers; both lines held low for good.
QuietBus == Bus(TRUE, TRUE, TRUE, TRUE, FALSE, 0, "nack", GoodDevice)
StuckBus == Bus(FALSE, FALSE, FALSE, FALSE, TRUE, 0, "nack", GoodDevice)

\* Writes meet a device that stores them, with or without a NACK, or one
\* that drops them.
NackWriteBuses(k) == NackBuses(k) \cup TxBuses(0, {DeafDevice})

\* What begin can meet: idle lines, or a line low at entry that the rescue
\* frees or not.
BeginBuses ==
  TxBuses(6, {GoodDevice}) \cup TxBuses(0, {BareDevice, OtherDevice})
    \cup { Bus(e[1], e[2], a[1], a[2], FALSE, 0, "nack", GoodDevice) :
             e \in {<<FALSE, TRUE>>, <<TRUE, FALSE>>, <<FALSE, FALSE>>},
             a \in {<<TRUE, TRUE>>, <<FALSE, TRUE>>, <<TRUE, FALSE>>} }

PartName == [i \in 1..CUSTOM_PART_NAME_LEN |-> 64 + i]

-----------------------------------------------------------------------------
(* The state machine.  The driver is used from one thread (its methods are
   not reentrant): a step is one call of a public method, from call to
   return, and then the caller's return to idle. *)

Init ==
  /\ drv = NewDriver
  /\ op = "none"
  /\ arg = <<>>
  /\ ret = StatusOk
  /\ hal = FALSE
  /\ wire = <<>>
  /\ log = <<>>
  /\ sensor = GoodDevice
  /\ pins = IdlePins

\* A public method runs from call to return on the idle driver; a is its
\* argument list and result what it computes.
Call(name, a, result) ==
  \E r \in {result} :
    /\ drv' = r.m.d
    /\ op' = name
    /\ arg' = a
    /\ ret' = r.st
    /\ hal' = r.m.hal
    /\ wire' = r.m.wire
    /\ log' = r.m.log
    /\ UNCHANGED <<sensor, pins>>

\* The caller has looked at the result.
Return ==
  /\ op # "none"
  /\ op' = "none"
  /\ arg' = <<>>
  /\ ret' = StatusOk
  /\ hal' = FALSE
  /\ wire' = <<>>
  /\ log' = <<>>
  /\ UNCHANGED <<drv, sensor, pins>>

\* The buses a call is run against.  A call consults the bus only through
\* the HAL callbacks, and every method but begin returns before the first
\* callback unless the driver is initialised (begin: if it is), so in that
\* case one bus stands for all of them.
Met(buses, whenInitialized) ==
  IF drv.initialized = whenInitialized THEN buses ELSE {QuietBus}

Begin ==
  /\ op = "none"
  /\ \/ \E bus \in Met(BeginBuses, FALSE) :
          Call("begin", <<TypicalConfig>>,
               begin(Machine(drv, bus), TypicalConfig))
     \/ \E config \in InvalidConfigs \cup {BoundaryConfig},
           bus \in Met({QuietBus, StuckBus}, FALSE) :
          Call("begin", <<config>>, begin(Machine(drv, bus), config))

Tick ==
  /\ op = "none"
  /\ \E nowMs \in 0..MaxTick :
       /\ drv' = tick(drv, nowMs)
       /\ op' = "tick"
       /\ arg' = <<nowMs>>
       /\ ret' = StatusOk
       /\ hal' = FALSE
       /\ wire' = <<>>
       /\ log' = <<>>
       /\ UNCHANGED <<sensor, pins>>

End ==
  /\ op = "none"
  /\ drv' = end(drv)
  /\ op' = "end"
  /\ arg' = <<>>
  /\ ret' = StatusOk
  /\ hal' = FALSE
  /\ wire' = <<>>
  /\ log' = <<>>
  /\ UNCHANGED <<sensor, pins>>

Probe ==
  /\ op = "none"
  /\ \E bus \in Met(TxBuses(2, {GoodDevice, OtherDevice}), TRUE) :
       Call("probe", <<>>,
            probe(Machine(drv, bus)))

Recover ==
  /\ op = "none"
  /\ \E bus \in Met(ResetBuses(NackBuses(2)) \cup TxBuses(2, {GoodDevice})
                      \cup TxBuses(0, {OtherDevice}), TRUE) :
       Call("recover", <<>>,
            recover(Machine(drv, bus)))

BusReset ==
  /\ op = "none"
  /\ \E bus \in Met(ResetBuses({QuietBus}), TRUE) :
       Call("busReset", <<>>,
            busReset(Machine(drv, bus)))

CheckBusIdle ==
  /\ op = "none"
  /\ \E bus \in Met(LineBuses, TRUE) :
       Call("checkBusIdle", <<>>,
            checkBusIdle(Machine(drv, bus)))

ReadControlByte ==
  /\ op = "none"
  /\ \E bus \in Met(TxBuses(1, {GoodDevice}), TRUE),
        nibble \in {MAIN_STATUS, 16} :
       Call("readControlByte", <<nibble>>,
            readControlByte(Machine(drv, bus), nibble, 0))

ReadU16 ==
  /\ op = "none"
  /\ \E bus \in Met(NackBuses(2), TRUE),
        lo \in {MAIN_MV3_LO, 16} :
       Call("readU16", <<lo, MAIN_MV3_HI>>,
            readU16(Machine(drv, bus), lo, MAIN_MV3_HI, 0))

SetCustomPointer ==
  /\ op = "none"
  /\ \E bus \in Met(TxBuses(1, {GoodDevice}), TRUE),
        address \in {7, 255, 256} :
       Call("setCustomPointer", <<address>>,
            setCustomPointer(Machine(drv, bus), address))

CustomRead ==
  /\ op = "none"
  /\ \E bus \in Met(NackBuses(3), TRUE),
        a \in { <<160, FALSE, 2>>, <<254, FALSE, 2>>, <<255, FALSE, 2>>,
                <<0, TRUE, 1>>, <<0, FALSE, 0>> } :
       Call("customRead", a,
            customReadBlock(Machine(drv, bus), a[1], a[2],
                            IF a[2] THEN <<>> ELSE Zeros(a[3]), a[3]))

CustomWrite ==
  /\ op = "none"
  /\ \E bus \in Met(NackWriteBuses(5), TRUE),
        a \in { <<CUSTOM_FILTER_CO2, 1>>, <<CUSTOM_INTERVAL_L, 200>>,
                <<CUSTOM_INTERVAL_L, 5>>, <<CUSTOM_INTERVAL_H, 1>> } :
       Call("customWrite", a, customWrite(Machine(drv, bus), a[1], a[2]))

WriteMeasurementInterval ==
  /\ op = "none"
  /\ \/ \E bus \in Met(NackWriteBuses(6), TRUE),
           v \in {INTERVAL_MIN_DECISEC, INTERVAL_MAX_DECISEC} :
          Call("writeMeasurementInterval", <<v>>,
               writeMeasurementInterval(Machine(drv, bus), v))
     \/ \E v \in {INTERVAL_MIN_DECISEC - 1, INTERVAL_MAX_DECISEC + 1} :
          Call("writeMeasurementInterval", <<v>>,
               writeMeasurementInterval(Machine(drv, QuietBus), v))

ReadGroup ==
  /\ op = "none"
  /\ \E bus \in Met(NackBuses(2) \cup TxBuses(0, {OtherDevice}), TRUE) :
       Call("readGroup", <<>>,
            readGroup(Machine(drv, bus), 0))

ReadSubgroup ==
  /\ op = "none"
  /\ \E bus \in Met(NackBuses(1) \cup TxBuses(0, {OtherDevice}), TRUE) :
       Call("readSubgroup", <<>>,
            readSubgroup(Machine(drv, bus)))

ReadAvailableMeasurements ==
  /\ op = "none"
  /\ \E bus \in Met(NackBuses(1), TRUE) :
       Call("readAvailableMeasurements", <<>>,
            readAvailableMeasurements(Machine(drv, bus)))

ReadStatus ==
  /\ op = "none"
  /\ \E bus \in Met(NackBuses(1), TRUE) :
       Call("readStatus", <<>>,
            readStatus(Machine(drv, bus)))

ReadErrorCode ==
  /\ op = "none"
  /\ \E bus \in Met(NackBuses(2), TRUE) :
       Call("readErrorCode", <<>>,
            readErrorCode(Machine(drv, bus)))

ReadCo2Fast ==
  /\ op = "none"
  /\ \E bus \in Met(NackBuses(2), TRUE) :
       Call("readCo2Fast", <<>>,
            readCo2Fast(Machine(drv, bus)))

ReadCo2Average ==
  /\ op = "none"
  /\ \E bus \in Met(NackBuses(2), TRUE) :
       Call("readCo2Average", <<>>,
            readCo2Average(Machine(drv, bus)))

ReadFirmwareVersion ==
  /\ op = "none"
  /\ \E bus \in Met(NackBuses(4), TRUE) :
       Call("readFirmwareVersion", <<>>,
            readFirmwareVersion(Machine(drv, bus)))

ReadE2SpecVersion ==
  /\ op = "none"
  /\ \E bus \in Met(NackBuses(2), TRUE) :
       Call("readE2SpecVersion", <<>>,
            readE2SpecVersion(Machine(drv, bus)))

ReadOperatingFunctions ==
  /\ op = "none"
  /\ \E bus \in Met(NackBuses(2), TRUE) :
       Call("readOperatingFunctions", <<>>,
            readOperatingFunctions(Machine(drv, bus)))

ReadOperatingModeSupport ==
  /\ op = "none"
  /\ \E bus \in Met(NackBuses(2), TRUE) :
       Call("readOperatingModeSupport", <<>>,
            readOperatingModeSupport(Machine(drv, bus)))

ReadSpecialFeatures ==
  /\ op = "none"
  /\ \E bus \in Met(NackBuses(2), TRUE) :
       Call("readSpecialFeatures", <<>>,
            readSpecialFeatures(Machine(drv, bus)))

ReadSerialNumber ==
  /\ op = "none"
  /\ \E bus \in Met(NackBuses(3), TRUE),
        bufNull \in BOOLEAN :
       Call("readSerialNumber", <<bufNull>>,
            readSerialNumber(Machine(drv, bus), bufNull))

ReadPartName ==
  /\ op = "none"
  /\ \E bus \in Met(NackBuses(3), TRUE),
        bufNull \in BOOLEAN :
       Call("readPartName", <<bufNull>>,
            readPartName(Machine(drv, bus), bufNull))

WritePartName ==
  /\ op = "none"
  /\ \E bus \in Met(NackWriteBuses(4), TRUE),
        bufNull \in BOOLEAN :
       Call("writePartName", <<bufNull>>,
            writePartName(Machine(drv, bus), bufNull, PartName))

ReadBusAddress ==
  /\ op = "none"
  /\ \E bus \in Met(NackBuses(2), TRUE) :
       Call("readBusAddress", <<>>,
            readBusAddress(Machine(drv, bus)))

WriteBusAddress ==
  /\ op = "none"
  /\ \E bus \in Met(NackWriteBuses(3), TRUE),
        address \in {BUS_ADDRESS_MAX, BUS_ADDRESS_MAX + 1} :
       Call("writeBusAddress", <<address>>,
            writeBusAddress(Machine(drv, bus), address))

ReadMeasurementInterval ==
  /\ op = "none"
  /\ \E bus \in Met(NackBuses(4), TRUE) :
       Call("readMeasurementInterval", <<>>,
            readMeasurementInterval(Machine(drv, bus)))

ReadCo2IntervalFactor ==
  /\ op = "none"
  /\ \E bus \in Met(NackBuses(2), TRUE) :
       Call("readCo2IntervalFactor", <<>>,
            readCo2IntervalFactor(Machine(drv, bus)))

WriteCo2IntervalFactor ==
  /\ op = "none"
  /\ \E bus \in Met(NackWriteBuses(3), TRUE),
        factor \in {-1, 2} :
       Call("writeCo2IntervalFactor", <<factor>>,
            writeCo2IntervalFactor(Machine(drv, bus), factor))

ReadCo2Filter ==
  /\ op = "none"
  /\ \E bus \in Met(NackBuses(2), TRUE) :
       Call("readCo2Filter", <<>>,
            readCo2Filter(Machine(drv, bus)))

WriteCo2Filter ==
  /\ op = "none"
  /\ \E bus \in Met(NackWriteBuses(3), TRUE),
        filter \in {1} :
       Call("writeCo2Filter", <<filter>>,
            writeCo2Filter(Machine(drv, bus), filter))

ReadOperatingMode ==
  /\ op = "none"
  /\ \E bus \in Met(NackBuses(2), TRUE) :
       Call("readOperatingMode", <<>>,
            readOperatingMode(Machine(drv, bus)))

WriteOperatingMode ==
  /\ op = "none"
  /\ \E bus \in Met(NackWriteBuses(3), TRUE),
        mode \in 0..7 :
       Call("writeOperatingMode", <<mode>>,
            writeOperatingMode(Machine(drv, bus), mode))

ReadAutoAdjustStatus ==
  /\ op = "none"
  /\ \E bus \in Met(NackBuses(2), TRUE) :
       Call("readAutoAdjustStatus", <<>>,
            readAutoAdjustStatus(Machine(drv, bus)))

StartAutoAdjust ==
  /\ op = "none"
  /\ \E bus \in Met(NackWriteBuses(3), TRUE) :
       Call("startAutoAdjust", <<>>,
            startAutoAdjust(Machine(drv, bus)))

ReadCo2Offset ==
  /\ op = "none"
  /\ \E bus \in Met(NackBuses(4), TRUE) :
       Call("readCo2Offset", <<>>,
            readCo2Offset(Machine(drv, bus)))

WriteCo2Offset ==
  /\ op = "none"
  /\ \E bus \in Met(NackWriteBuses(6), TRUE),
        offset \in {-2, 300} :
       Call("writeCo2Offset", <<offset>>,
            writeCo2Offset(Machine(drv, bus), offset))

ReadCo2Gain ==
  /\ op = "none"
  /\ \E bus \in Met(NackBuses(4), TRUE) :
       Call("readCo2Gain", <<>>,
            readCo2Gain(Machine(drv, bus)))

WriteCo2Gain ==
  /\ op = "none"
  /\ \E bus \in Met(NackWriteBuses(6), TRUE),
        gain \in {32768} :
       Call("writeCo2Gain", <<gain>>,
            writeCo2Gain(Machine(drv, bus), gain))

ReadCo2CalPoints ==
  /\ op = "none"
  /\ \E bus \in Met(NackBuses(3), TRUE) :
       Call("readCo2CalPoints", <<>>,
            readCo2CalPoints(Machine(drv, bus)))

Next ==
  \/ Return
  \/ Begin
  \/ Tick
  \/ End
  \/ Probe
  \/ Recover
  \/ BusReset
  \/ CheckBusIdle
  \/ ReadControlByte
  \/ ReadU16
  \/ SetCustomPointer
  \/ CustomRead
  \/ CustomWrite
  \/ WriteMeasurementInterval
  \/ ReadGroup
  \/ ReadSubgroup
  \/ ReadAvailableMeasurements
  \/ ReadStatus
  \/ ReadErrorCode
  \/ ReadCo2Fast
  \/ ReadCo2Average
  \/ ReadFirmwareVersion
  \/ ReadE2SpecVersion
  \/ ReadOperatingFunctions
  \/ ReadOperatingModeSupport
  \/ ReadSpecialFeatures
  \/ ReadSerialNumber
  \/ ReadPartName
  \/ WritePartName
  \/ ReadBusAddress
  \/ WriteBusAddress
  \/ ReadMeasurementInterval
  \/ ReadCo2IntervalFactor
  \/ WriteCo2IntervalFactor
  \/ ReadCo2Filter
  \/ WriteCo2Filter
  \/ ReadOperatingMode
  \/ WriteOperatingMode
  \/ ReadAutoAdjustStatus
  \/ StartAutoAdjust
  \/ ReadCo2Offset
  \/ WriteCo2Offset
  \/ ReadCo2Gain
  \/ WriteCo2Gain
  \/ ReadCo2CalPoints

Spec == Init /\ [][Next]_vars

-----------------------------------------------------------------------------
(* Vocabulary of the properties *)

\* Methods that return no Status.
VoidOps == {"tick", "end"}

\* Diagnostics that use raw transactions or only the lines.
DiagnosticOps == {"probe", "busReset", "checkBusIdle"}

\* The methods whose transactions go through the tracked wrappers.
IsTracked(name) == name \notin {"none", "begin"} \cup VoidOps \cup DiagnosticOps

\* Tracked methods that perform exactly one transaction when they perform any.
SingleTransactionOps ==
  {"readControlByte", "setCustomPointer", "readStatus",
   "readAvailableMeasurements", "readSubgroup"}

\* The statuses a failed frame transaction returns.
IsTransactionFailure(st) == st.code \in {"TIMEOUT", "NACK", "PEC_MISMATCH"}

\* The health fields of the driver object.
Health(d) ==
  <<d.driverState, d.consecutiveFailures, d.totalSuccess, d.totalFailures,
    d.lastOkMs, d.lastErrorMs, d.lastError>>

\* Saturating increments of the two counter widths.
Inc32(x) == IF x = Uint32Max THEN x ELSE x + 1
Inc8(x) == IF x = Uint8Max THEN x ELSE x + 1

\* The state the threshold assigns to a non-zero consecutive-failure count.
StateFor(d) ==
  IF d.consecutiveFailures >= d.config.offlineThreshold
  THEN "OFFLINE" ELSE "DEGRADED"

-----------------------------------------------------------------------------
(* Properties *)

\* C1: while the driver is initialised, the state is READY iff the
\* consecutive-failure count is 0, DEGRADED iff it is at least 1 and below
\* offlineThreshold, and OFFLINE iff it is at least offlineThreshold.
C1_StateMatchesFailures ==
  drv.initialized =>
    /\ drv.driverState = "READY" <=> drv.consecutiveFailures = 0
    /\ drv.driverState = "DEGRADED" <=>
         /\ 1 <= drv.consecutiveFailures
         /\ drv.consecutiveFailures < drv.config.offlineThreshold
    /\ drv.driverState = "OFFLINE" <=>
         drv.consecutiveFailures >= drv.config.offlineThreshold

\* An initialised driver that is OFFLINE with more consecutive failures than
\* the threshold asks for.
C1_Witness ==
  /\ drv.initialized
  /\ drv.driverState = "OFFLINE"
  /\ drv.consecutiveFailures > drv.config.offlineThreshold

\* C2: on an initialised driver in any state, a tracked transaction that
\* succeeds sets lastOkMs to the stored tick, resets consecutiveFailures to
\* 0, adds one to totalSuccess unless it is saturated, leaves totalFailures,
\* lastErrorMs and lastError alone and makes the state READY.  (Stated on
\* the methods that perform one transaction; a transaction took place iff a
\* HAL callback was invoked.)
C2_TrackedSuccess ==
  [][ ( /\ op' \in SingleTransactionOps
        /\ drv.initialized
        /\ hal'
        /\ ~IsTransactionFailure(ret') )
      => /\ drv'.lastOkMs = drv.nowMs
         /\ drv'.consecutiveFailures = 0
         /\ drv'.totalSuccess = Inc32(drv.totalSuccess)
         /\ drv'.totalFailures = drv.totalFailures
         /\ drv'.lastErrorMs = drv.lastErrorMs
         /\ drv'.lastError = drv.lastError
         /\ drv'.driverState = "READY" ]_vars

\* readStatus has succeeded as the first success since begin, after at least
\* offlineThreshold failures in a row: the driver was OFFLINE and is READY.
C2_Witness ==
  /\ op = "readStatus"
  /\ ok(ret)
  /\ drv.driverState = "READY"
  /\ drv.totalSuccess = 1
  /\ drv.totalFailures >= drv.config.offlineThreshold
  /\ drv.lastOkMs = 1

\* C3: on an initialised driver, a tracked transaction that fails sets
\* lastErrorMs to the stored tick, stores the failing status in lastError,
\* adds one to totalFailures and to consecutiveFailures unless saturated,
\* leaves totalSuccess and lastOkMs alone and makes the state OFFLINE if the
\* new count has reached offlineThreshold and DEGRADED otherwise.
C3_TrackedFailure ==
  [][ ( /\ op' \in SingleTransactionOps
        /\ drv.initialized
        /\ IsTransactionFailure(ret') )
      => /\ drv'.lastErrorMs = drv.nowMs
         /\ drv'.lastError = ret'
         /\ drv'.totalFailures = Inc32(drv.totalFailures)
         /\ drv'.consecutiveFailures = Inc8(drv.consecutiveFailures)
         /\ drv'.totalSuccess = drv.totalSuccess
         /\ drv'.lastOkMs = drv.lastOkMs
         /\ drv'.driverState = StateFor(drv') ]_vars

\* With threshold 1, a NACKed readStatus is the second failure in a row and
\* nothing has succeeded: totalFailures 2, consecutiveFailures 2, OFFLINE.
C3_Witness ==
  /\ op = "readStatus"
  /\ ret.code = "NACK"
  /\ drv.config.offlineThreshold = 1
  /\ drv.totalFailures = 2
  /\ drv.consecutiveFailures = 2
  /\ drv.totalSuccess = 0
  /\ drv.driverState = "OFFLINE"
  /\ drv.lastError = ret
  /\ drv.lastErrorMs = 1

\* C4 as stated: after any Status-returning method returns OK, the state is
\* READY and consecutiveFailures is 0, probe, busReset and checkBusIdle
\* included.
C4_AsStated ==
  (op \notin {"none"} \cup VoidOps /\ ok(ret))
    => (drv.driverState = "READY" /\ drv.consecutiveFailures = 0)

\* C4: after begin, recover or any tracked method returns OK, the state is
\* READY and consecutiveFailures is 0; the three diagnostics are excepted.
C4_OkMeansReady ==
  (op \notin {"none"} \cup VoidOps \cup DiagnosticOps /\ ok(ret))
    => (drv.driverState = "READY" /\ drv.consecutiveFailures = 0)

\* recover has returned OK with the only two successes since begin, after at
\* least offlineThreshold failures: it found the driver OFFLINE.
C4_Witness ==
  /\ op = "recover"
  /\ ok(ret)
  /\ drv.driverState = "READY"
  /\ drv.consecutiveFailures = 0
  /\ drv.totalSuccess = 2
  /\ drv.totalFailures >= drv.config.offlineThreshold

C6_AsStated ==
  [][ drv'.totalSuccess + drv'.totalFailures
        >= drv.totalSuccess + drv.totalFailures ]_vars

\* C6: totalSuccess + totalFailures never decreases, except that a begin
\* that passes validation on an uninitialised driver sets both to 0.
C6_MonotoneUntilBegin ==
  [][ \/ drv'.totalSuccess + drv'.totalFailures
           >= drv.totalSuccess + drv.totalFailures
      \/ /\ op' = "begin"
         /\ ret'.code \notin {"ALREADY_INITIALIZED", "INVALID_CONFIG"}
         /\ drv'.totalSuccess = 0
         /\ drv'.totalFailures = 0 ]_vars

\* An ended driver that has counted successes and failures has rejected an
\* invalid configuration and still holds its counters.
C6_Witness ==
  /\ op = "begin"
  /\ ret.code = "INVALID_CONFIG"
  /\ drv.totalSuccess > 0
  /\ drv.totalFailures > 0

\* C7: probe, busReset and checkBusIdle leave the state, the three counters,
\* both timestamps and lastError as they were, whatever they return.
C7_DiagnosticsKeepHealth ==
  [][ op' \in DiagnosticOps => Health(drv') = Health(drv) ]_vars

\* probe has failed with a NACK on an initialised driver that is READY and
\* has no failure counted.
C7_Witness ==
  /\ op = "probe"
  /\ ret.code = "NACK"
  /\ drv.initialized
  /\ drv.driverState = "READY"
  /\ drv.totalFailures = 0

\* C8 as stated: on a driver that is not initialised the state is UNINIT and
\* every bus-touching method returns NOT_INITIALIZED.
C8_AsStated ==
  (~drv.initialized /\ op \notin {"none", "begin"} \cup VoidOps)
    => (drv.driverState = "UNINIT" /\ ret.code = "NOT_INITIALIZED")

\* C9: begin on an initialised driver returns ALREADY_INITIALIZED, invokes
\* no HAL callback and changes no member of the driver.
C9_BeginTwice ==
  [][ (op' = "begin" /\ drv.initialized)
      => /\ ret'.code = "ALREADY_INITIALIZED"
         /\ ~hal'
         /\ drv' = drv ]_vars

\* begin has been refused on an initialised driver that is OFFLINE.
C9_Witness ==
  /\ op = "begin"
  /\ ret.code = "ALREADY_INITIALIZED"
  /\ ~hal
  /\ drv.initialized
  /\ drv.driverState = "OFFLINE"

\* The configurations C10 lists as rejected.
C10_Rejected(config) ==
  \/ ~config.setScl \/ ~config.setSda \/ ~config.readScl \/ ~config.readSda
  \/ ~config.delayUs
  \/ config.deviceAddress > 7
  \/ config.clockLowUs < 100 \/ config.clockHighUs < 100
  \/ config.startHoldUs < 4 \/ config.stopHoldUs < 4
  \/ config.bitTimeoutUs = 0 \/ config.byteTimeoutUs = 0
  \/ config.byteTimeoutUs < config.bitTimeoutUs
  \/ config.offlineThreshold = 0
  \/ config.writeDelayMs > 5000 \/ config.intervalWriteDelayMs > 5000

\* C10: begin on an uninitialised driver returns INVALID_CONFIG exactly for
\* the configurations listed, and then invokes no HAL callback and leaves
\* the driver UNINIT and unchanged; a configuration on the boundaries
\* (address 7, clocks 100, threshold 1, delays 5000) is not refused.
C10_InvalidConfig ==
  [][ (op' = "begin" /\ ~drv.initialized)
      => /\ ret'.code = "INVALID_CONFIG" <=> C10_Rejected(arg'[1])
         /\ ret'.code = "INVALID_CONFIG"
              => (~hal' /\ drv' = drv /\ drv'.driverState = "UNINIT")
         /\ ( /\ arg'[1].deviceAddress = 7
              /\ arg'[1].clockLowUs = 100
              /\ arg'[1].clockHighUs = 100
              /\ arg'[1].offlineThreshold = 1
              /\ arg'[1].writeDelayMs = 5000
              /\ arg'[1].intervalWriteDelayMs = 5000
              /\ ~C10_Rejected(arg'[1]) )
              => ret'.code # "INVALID_CONFIG" ]_vars

\* begin has refused a configuration whose only fault is a write delay of
\* 5001 ms.
C10_Witness ==
  /\ op = "begin"
  /\ ret.code = "INVALID_CONFIG"
  /\ arg[1].writeDelayMs = 5001
  /\ ~C10_Rejected([arg[1] EXCEPT !.writeDelayMs = 5000])
  /\ ~hal
  /\ drv.driverState = "UNINIT"

LineSamples == {"IDLE", "SDA_LOW", "SCL_LOW", "BOTH_LOW"}

\* How often an event occurs in a wire record.
Count(w, ev) == Cardinality({i \in 1..Len(w) : w[i] = ev})

\* C12: a begin that passes validation on an uninitialised driver samples the
\* lines first; if both read high it issues no rescue clock; if one reads low
\* it issues exactly BUS_RESET_CLOCKS clocks and a STOP and samples again;
\* if a line then still reads low it returns BUS_STUCK without starting a
\* frame and the state stays UNINIT, and BUS_STUCK is returned in no other
\* case.
C12_RescueOnLowLine ==
  [][ (op' = "begin" /\ ~drv.initialized /\ ret'.code # "INVALID_CONFIG")
      => /\ Len(wire') >= 1
         /\ wire'[1] \in LineSamples
         /\ wire'[1] = "IDLE"
              => (Count(wire', "CLOCK") = 0 /\ Count(wire', "STOP") = 0)
         /\ wire'[1] # "IDLE"
              => /\ Len(wire') >= BUS_RESET_CLOCKS + 3
                 /\ \A i \in 2..(BUS_RESET_CLOCKS + 1) : wire'[i] = "CLOCK"
                 /\ wire'[BUS_RESET_CLOCKS + 2] = "STOP"
                 /\ wire'[BUS_RESET_CLOCKS + 3] \in LineSamples
                 /\ Count(wire', "CLOCK") = BUS_RESET_CLOCKS
                 /\ wire'[BUS_RESET_CLOCKS + 3] # "IDLE"
                      => /\ ret'.code = "BUS_STUCK"
                         /\ Len(wire') = BUS_RESET_CLOCKS + 3
                         /\ drv'.driverState = "UNINIT"
                 /\ wire'[BUS_RESET_CLOCKS + 3] = "IDLE"
                      => (ret'.code # "BUS_STUCK" /\ Count(wire', "FRAME") >= 1)
         /\ ret'.code = "BUS_STUCK" => wire'[1] # "IDLE" ]_vars

\* begin found both lines low, ran the nine clocks, found SDA still low and
\* returned BUS_STUCK with no frame started.
C12_Witness ==
  /\ op = "begin"
  /\ ret.code = "BUS_STUCK"
  /\ wire = <<"BOTH_LOW">> \o [i \in 1..BUS_RESET_CLOCKS |-> "CLOCK"]
              \o <<"STOP", "SDA_LOW">>
  /\ drv.driverState = "UNINIT"
  /\ ~drv.initialized

\* The three cached feature bytes.
FeatureCache(d) == <<d.operatingFunctions, d.operatingModeSupport, d.specialFeatures>>

\* C13 as stated: when begin returns OK although a step of the feature-cache
\* read failed, the state is READY and the three cached feature bytes are
\* all zero.
C13_AsStated ==
  [][ (op' = "begin" /\ ok(ret') /\ Count(wire', "FAILED") > 0)
      => (drv'.driverState = "READY" /\ FeatureCache(drv') = <<0, 0, 0>>) ]_vars

\* C14: no operation but begin modifies the three cached feature bytes:
\* tick, end, recover, probe, the three feature reads and every other read
\* or write leave them as begin wrote them.
C14_CacheFrozen ==
  [][ op' # "begin" => FeatureCache(drv') = FeatureCache(drv) ]_vars

\* readOperatingFunctions has read the byte of a device that has every
\* feature, on a driver whose cache, written by begin, says it has none.
C14_Witness ==
  /\ op = "readOperatingFunctions"
  /\ ok(ret)
  /\ Count(wire, "FRAME") = 2
  /\ drv.initialized
  /\ FeatureCache(drv) = <<0, 0, 0>>

-----------------------------------------------------------------------------
(* EE871.cpp: the frames at the level of the line steps *)

\* A raw transaction in progress, step by step.  cfg: the configuration;
\* slave: what the device does (reply: the SDA levels it presents at the
\* successive clocks the master samples, TRUE for high; stallAt: the number
\* of the wait for SCL at which it holds SCL low for good, 0 for never;
\* persists: whether it still holds SCL low at the waits after that one);
\* wire: the steps completed, as in the variable wire but in full: START and
\* STOP, W0/W1 a bit written, R0/R1 a bit read, A0/A1 the level sampled in
\* the acknowledge slot of a byte sent (A0, low, acknowledges), M0/M1 the
\* level the master drives in the acknowledge slot of a byte received (M0
\* is ACK, M1 is NACK), STALL a step given up because SCL did not rise;
\* waits and samples count the waits for SCL and the samples of SDA so far;
\* elapsed is the elapsedUs counter of the byte in progress.
Frame(cfg, slave) ==
  [cfg |-> cfg, slave |-> slave, wire |-> <<>>, waits |-> 0, samples |-> 0,
   elapsed |-> 0]

kDataSetupUs == 10

\* delayUs(cfg, us, elapsedUs): counted is elapsedUs != nullptr.
delayUs(f, us, counted) ==
  IF counted THEN [f EXCEPT !.elapsed = f.elapsed + us] ELSE f

\* waitSclHigh.  SCL is high at the first read unless the slave stalls this
\* wait; then the loop polls every kPollStepUs until the bit timeout or, if
\* the byte is timed, the byte timeout is reached, whichever test fires
\* first.  Result: [f, st].
waitSclHigh(f0, counted) ==
  The({ IF ~( /\ f.slave.stallAt # 0
              /\ \/ f.waits = f.slave.stallAt
                 \/ f.slave.persists /\ f.waits > f.slave.stallAt )
        THEN [f |-> f, st |-> StatusOk]
        ELSE LET bitPolls == (f.cfg.bitTimeoutUs + kPollStepUs - 1) \div kPollStepUs
                 bytePolls == IF f.elapsed + kPollStepUs > f.cfg.byteTimeoutUs THEN 0
                              ELSE (f.cfg.byteTimeoutUs - kPollStepUs - f.elapsed)
                                     \div kPollStepUs + 1
             IN IF counted /\ bytePolls < bitPolls
                THEN [f |-> delayUs(f, bytePolls * kPollStepUs, TRUE),
                      st |-> Error("TIMEOUT", "Byte timeout",
                                   f.elapsed + bytePolls * kPollStepUs)]
                ELSE [f |-> delayUs(f, bitPolls * kPollStepUs, counted),
                      st |-> waitSclHighTimeout(f.cfg)]
        : f \in {[f0 EXCEPT !.waits = f0.waits + 1]} })

\* A step of the frame: the wait for SCL, then the event on the record if SCL
\* rose and STALL if it did not.
Step(f0, counted, event) ==
  The({ [f |-> [r.f EXCEPT !.wire = Append(r.f.wire,
                                           IF ok(r.st) THEN event ELSE "STALL")],
         st |-> r.st]
        : r \in {waitSclHigh(f0, counted)} })

\* e2Start.  Result: [f, st].
e2Start(f0) == Step(f0, FALSE, "START")

\* e2Stop.  Result: [f, st].
e2Stop(f0) == Step(f0, FALSE, "STOP")

\* writeBit.  Result: [f, st].
writeBit(f0, bit) ==
  The({ IF ~ok(r.st) THEN r
        ELSE [r EXCEPT !.f = delayUs(r.f, r.f.cfg.clockHighUs + r.f.cfg.clockLowUs, TRUE)]
        : r \in {Step(delayUs(f0, kDataSetupUs, TRUE), TRUE,
                      IF bit THEN "W1" ELSE "W0")} })

\* The level the slave presents at the next sample of SDA (released, high,
\* once its reply is used up).
NextLevel(f) ==
  IF f.samples < Len(f.slave.reply) THEN f.slave.reply[f.samples + 1] ELSE TRUE

\* readBit.  Result: [f, st, bit].
readBit(f0) ==
  The({ IF ~ok(r.st) THEN [f |-> r.f, st |-> r.st, bit |-> FALSE]
        ELSE [f |-> [delayUs(r.f, r.f.cfg.clockHighUs + r.f.cfg.clockLowUs, TRUE)
                       EXCEPT !.samples = r.f.samples + 1],
              st |-> r.st, bit |-> NextLevel(f0)]
        : r \in {Step(delayUs(f0, kDataSetupUs, TRUE), TRUE,
                      IF NextLevel(f0) THEN "R1" ELSE "R0")} })

\* readAck.  Result: [f, st, acked]; acked is left as it was when the wait
\* fails.
readAck(f0, acked0) ==
  The({ IF ~ok(r.st) THEN [f |-> r.f, st |-> r.st, acked |-> acked0]
        ELSE [f |-> [delayUs(r.f, r.f.cfg.clockHighUs + r.f.cfg.clockLowUs, TRUE)
                       EXCEPT !.samples = r.f.samples + 1],
              st |-> r.st, acked |-> ~NextLevel(f0)]
        : r \in {Step(delayUs(f0, kDataSetupUs, TRUE), TRUE,
                      IF NextLevel(f0) THEN "A1" ELSE "A0")} })

\* sendAck that drives ACK whatever it is asked to send.
sendAckAlwaysAcks(f0, ack) ==
  The({ IF ~ok(r.st) THEN r
        ELSE [r EXCEPT !.f = delayUs(r.f, r.f.cfg.clockHighUs + r.f.cfg.clockLowUs, TRUE)]
        : r \in {Step(delayUs(f0, kDataSetupUs, TRUE), TRUE, "M0")} })

\* sendAck.  Result: [f, st].
sendAck(f0, ack) ==
  The({ IF ~ok(r.st) THEN r
        ELSE [r EXCEPT !.f = delayUs(r.f, r.f.cfg.clockHighUs + r.f.cfg.clockLowUs, TRUE)]
        : r \in {Step(delayUs(f0, kDataSetupUs, TRUE), TRUE,
                      IF ack THEN "M0" ELSE "M1")} })

\* writeByte: the loop over mask from 0x80 down, entered at mask.
\* Result: [f, st].
RECURSIVE writeByte(_, _, _)
writeByte(f0, value, mask) ==
  IF mask = 0 THEN [f |-> f0, st |-> StatusOk]
  ELSE The({ IF ~ok(r.st) THEN r ELSE writeByte(r.f, value, mask \div 2)
             : r \in {writeBit(f0, HasBit(value, mask))} })

\* readByte: the loop over mask from 0x80 down, entered at mask with the bits
\* read so far in value.  Result: [f, st, value]; on a failure value holds
\* the bits read before it.
RECURSIVE readByte(_, _, _)
readByte(f0, value, mask) ==
  IF mask = 0 THEN [f |-> f0, st |-> StatusOk, value |-> value]
  ELSE The({ IF ~ok(r.st) THEN [f |-> r.f, st |-> r.st, value |-> value]
             ELSE readByte(r.f, IF r.bit THEN value + mask ELSE value, mask \div 2)
             : r \in {readBit(f0)} })

\* A failure return that hands back the result of its e2Stop.
AbortReturnsStop(f, st, data) == [f |-> e2Stop(f).f, st |-> e2Stop(f).st, data |-> data]

\* The failure return of a raw transaction after START: e2Stop, whose result
\* is ignored, then the status.
Abort(f, st, data) == [f |-> e2Stop(f).f, st |-> st, data |-> data]

\* EE871::_readControlByteRaw, step by step; elapsedUs is set to 0 before
\* each byte.  Result: [f, st, data]; data0 is the caller's variable before
\* the call.
readControlByteRawSteps(f0, controlByte, data0) ==
  The({ IF ~ok(s.st) THEN [f |-> s.f, st |-> s.st, data |-> data0] ELSE
  The({ IF ~ok(c.st) THEN Abort(c.f, c.st, data0) ELSE
  The({ IF ~ok(a.st) THEN Abort(a.f, a.st, data0) ELSE
        IF ~a.acked THEN Abort(a.f, Error("NACK", "Control byte NACK", 0), data0) ELSE
  The({ IF ~ok(d.st) THEN Abort(d.f, d.st, d.value) ELSE
  The({ IF ~ok(k.st) THEN Abort(k.f, k.st, d.value) ELSE
  The({ IF ~ok(p.st) THEN Abort(p.f, p.st, d.value) ELSE
  The({ IF ~ok(n.st) THEN Abort(n.f, n.st, d.value) ELSE
  The({ IF ~ok(e.st) THEN [f |-> e.f, st |-> e.st, data |-> d.value]
        ELSE IF p.value # calcPecRead(controlByte, d.value)
        THEN [f |-> e.f, st |-> Error("PEC_MISMATCH", "PEC mismatch", p.value),
              data |-> d.value]
        ELSE [f |-> e.f, st |-> StatusOk, data |-> d.value]
        : e \in {e2Stop(n.f)} })
        : n \in {sendAck(p.f, FALSE)} })
        : p \in {readByte([k.f EXCEPT !.elapsed = 0], 0, 128)} })
        : k \in {sendAck(d.f, TRUE)} })
        : d \in {readByte([a.f EXCEPT !.elapsed = 0], 0, 128)} })
        : a \in {readAck(c.f, FALSE)} })
        : c \in {writeByte([s.f EXCEPT !.elapsed = 0], controlByte, 128)} })
        : s \in {e2Start(f0)} })

\* One byte of a write transaction and its acknowledge slot: elapsedUs = 0,
\* writeByte, then readAck.  Result: [f, st]; a byte that is not
\* acknowledged gives NACK with the message of its stage.
SendAcked(f0, value, message) ==
  The({ IF ~ok(w.st) THEN w ELSE
  The({ IF ~ok(a.st) THEN [f |-> a.f, st |-> a.st]
        ELSE IF ~a.acked THEN [f |-> a.f, st |-> Error("NACK", message, 0)]
        ELSE [f |-> a.f, st |-> StatusOk]
        : a \in {readAck(w.f, FALSE)} })
        : w \in {writeByte([f0 EXCEPT !.elapsed = 0], value, 128)} })

\* EE871::_writeCommandRaw, step by step.  Result: [f, st].
writeCommandRawSteps(f0, controlByte, addressByte, dataByte) ==
  The({ IF ~ok(s.st) THEN s ELSE
  The({ IF ~ok(c.st) THEN [f |-> e2Stop(c.f).f, st |-> c.st] ELSE
  The({ IF ~ok(a.st) THEN [f |-> e2Stop(a.f).f, st |-> a.st] ELSE
  The({ IF ~ok(d.st) THEN [f |-> e2Stop(d.f).f, st |-> d.st] ELSE
  The({ IF ~ok(p.st) THEN [f |-> e2Stop(p.f).f, st |-> p.st]
        ELSE e2Stop(p.f)
        : p \in {SendAcked(d.f, calcPecWrite(controlByte, addressByte, dataByte),
                           "PEC NACK")} })
        : d \in {SendAcked(a.f, dataByte, "Data byte NACK")} })
        : a \in {SendAcked(c.f, addressByte, "Address byte NACK")} })
        : c \in {SendAcked(s.f, controlByte, "Control byte NACK")} })
        : s \in {e2Start(f0)} })


-----------------------------------------------------------------------------
(* The raw transactions on their own *)

\* The levels a byte puts on SDA, most significant bit first (TRUE is high).
Bits(value) == [i \in 1..8 |-> HasBit(value, 2 ^ (8 - i))]

\* An initialised driver for each of three valid configurations.
FrameInit ==
  /\ drv \in { begin(Machine(NewDriver, QuietBus), config).m.d
               : config \in {TypicalConfig, BoundaryConfig, TightConfig} }
  /\ op = "none"
  /\ arg = <<>>
  /\ ret = StatusOk
  /\ hal = FALSE
  /\ wire = <<>>
  /\ log = <<>>
  /\ sensor = GoodDevice
  /\ pins = IdlePins

\* _readControlByteRaw against a slave that acknowledges the control byte or
\* not, sends a data byte and a PEC byte that is right or wrong, and may hold
\* SCL low at any one of the 29 waits of the frame.  arg is the control byte
\* and the caller's data variable as the call leaves it.
ReadFrame ==
  /\ op = "none"
  /\ \E main \in {MAIN_TYPE_LO, MAIN_STATUS, MAIN_MV4_HI},
        acks \in BOOLEAN, data \in {0, 90, 255}, pecError \in {0, 1, 128},
        stallAt \in 0..29, persists \in BOOLEAN :
       /\ stallAt = 0 => ~persists
       /\ \E controlByte \in {makeControlRead(main, drv.config.deviceAddress)} :
          \E r \in {readControlByteRawSteps(
                      Frame(drv.config,
                            [reply |-> <<~acks>> \o Bits(data)
                                         \o Bits((controlByte + data + pecError) % 256),
                             stallAt |-> stallAt, persists |-> persists]),
                      controlByte, 0)} :
            /\ op' = "_readControlByteRaw"
            /\ arg' = <<controlByte, r.data>>
            /\ ret' = r.st
            /\ hal' = TRUE
            /\ wire' = r.f.wire
            /\ log' = << <<"ELAPSED", r.f.elapsed, 0, 0>> >>
            /\ UNCHANGED <<drv, sensor, pins>>

\* _writeCommandRaw against a slave that refuses one of the four bytes or
\* none and may hold SCL low at any one of the 38 waits of the frame.
WriteFrame ==
  /\ op = "none"
  /\ \E main \in {MAIN_CUSTOM_WRITE, MAIN_CUSTOM_PTR},
        addressByte \in {0, CUSTOM_INTERVAL_L}, dataByte \in {7, 255},
        nackAt \in 0..4, stallAt \in 0..38, persists \in BOOLEAN :
       /\ stallAt = 0 => ~persists
       /\ \E controlByte \in {makeControlWrite(main, drv.config.deviceAddress)} :
          \E r \in {writeCommandRawSteps(
                      Frame(drv.config,
                            [reply |-> [i \in 1..4 |-> i = nackAt],
                             stallAt |-> stallAt, persists |-> persists]),
                      controlByte, addressByte, dataByte)} :
            /\ op' = "_writeCommandRaw"
            /\ arg' = <<controlByte, addressByte, dataByte>>
            /\ ret' = r.st
            /\ hal' = TRUE
            /\ wire' = r.f.wire
            /\ log' = << <<"ELAPSED", r.f.elapsed, 0, 0>> >>
            /\ UNCHANGED <<drv, sensor, pins>>

\* waitSclHigh, one evaluation of its loop condition at a time.  While the
\* function runs op is "waitSclHigh:loop"; arg holds bitTimeoutUs,
\* byteTimeoutUs, the value of *elapsedUs at entry (-1: elapsedUs is
\* nullptr) and the number of polls after which the slave lets SCL rise
\* (-1: never); wire holds one POLL for each delayUs(kPollStepUs) so far.
PollWaitedUs == Len(wire) * kPollStepUs
PollCounted == arg[3] >= 0
PollElapsedUs == arg[3] + Len(wire) * kPollStepUs
PollSclLow == arg[4] < 0 \/ Len(wire) < arg[4]

\* Bit timeouts below, at and above multiples of the poll step; byte
\* timeouts equal to the bit timeout and above it; a byte that has used up
\* nothing or something of its budget; a slave that does not stretch the
\* clock, stretches it for a while, or holds it for good.
PollBitTimeouts == {1, 5, 6, 23}
PollByteSlack == {0, 8}
PollElapsedAtEntry == {-1, 0, 12}
PollRiseAfter == {-1, 0, 2}

WaitEnter ==
  /\ op = "none"
  /\ \E b \in PollBitTimeouts, y \in PollByteSlack,
        e \in PollElapsedAtEntry, k \in PollRiseAfter :
       /\ op' = "waitSclHigh:loop"
       /\ arg' = <<b, b + y, e, k>>
  /\ ret' = StatusOk
  /\ hal' = TRUE
  /\ wire' = <<>>
  /\ UNCHANGED <<drv, log, sensor, pins>>

\* The loop body polling once more than the bit timeout allows.
WaitPollOnceMore ==
  /\ op = "waitSclHigh:loop"
  /\ PollSclLow
  /\ PollWaitedUs <= arg[1]
  /\ ~(PollCounted /\ PollElapsedUs + kPollStepUs > arg[2])
  /\ wire' = Append(wire, "POLL")
  /\ UNCHANGED <<drv, op, arg, ret, hal, log, sensor, pins>>

\* The loop body past both timeout tests: delayUs(kPollStepUs), waitedUs +=
\* kPollStepUs.
WaitPoll ==
  /\ op = "waitSclHigh:loop"
  /\ PollSclLow
  /\ PollWaitedUs < arg[1]
  /\ ~(PollCounted /\ PollElapsedUs + kPollStepUs > arg[2])
  /\ wire' = Append(wire, "POLL")
  /\ UNCHANGED <<drv, op, arg, ret, hal, log, sensor, pins>>

\* waitedUs >= bitTimeoutUs: TIMEOUT with detail waitedUs.
WaitBitTimeout ==
  /\ op = "waitSclHigh:loop"
  /\ PollSclLow
  /\ PollWaitedUs >= arg[1]
  /\ op' = "waitSclHigh"
  /\ ret' = Error("TIMEOUT", "Clock stretch timeout", PollWaitedUs)
  /\ UNCHANGED <<drv, arg, hal, wire, log, sensor, pins>>

\* *elapsedUs + kPollStepUs > byteTimeoutUs: TIMEOUT with detail *elapsedUs.
WaitByteTimeout ==
  /\ op = "waitSclHigh:loop"
  /\ PollSclLow
  /\ PollWaitedUs < arg[1]
  /\ PollCounted /\ PollElapsedUs + kPollStepUs > arg[2]
  /\ op' = "waitSclHigh"
  /\ ret' = Error("TIMEOUT", "Byte timeout", PollElapsedUs)
  /\ UNCHANGED <<drv, arg, hal, wire, log, sensor, pins>>

\* readScl returns high: the loop ends and waitSclHigh returns OK.
WaitRisen ==
  /\ op = "waitSclHigh:loop"
  /\ ~PollSclLow
  /\ op' = "waitSclHigh"
  /\ ret' = StatusOk
  /\ UNCHANGED <<drv, arg, hal, wire, log, sensor, pins>>

WaitNext == WaitPoll \/ WaitBitTimeout \/ WaitByteTimeout \/ WaitRisen

\* The caller goes back to idle once the function it called has returned.
FrameReturn == op # "waitSclHigh:loop" /\ Return

FrameNext ==
  \/ ReadFrame
  \/ WriteFrame
  \/ WaitEnter
  \/ WaitPoll
  \/ WaitBitTimeout
  \/ WaitByteTimeout
  \/ WaitRisen
  \/ FrameReturn

FrameSpec == FrameInit /\ [][FrameNext]_vars

\* The HAL callbacks return, so a loop that is running goes on running.
FrameLive == FrameSpec /\ WF_vars(WaitNext)

\* The byte whose eight bits, most significant first, are on the record w
\* from position i on; one is the event that stands for a 1.
ByteAt(w, i, one) ==
  LET b(j) == IF w[i + j] = one THEN 1 ELSE 0
  IN 128 * b(0) + 64 * b(1) + 32 * b(2) + 16 * b(3)
       + 8 * b(4) + 4 * b(5) + 2 * b(6) + b(7)

\* A read frame all of whose 29 steps were completed.
ReadComplete(w) == Len(w) = 29 /\ w[29] = "STOP" /\ Count(w, "STALL") = 0

\* C15: a read transaction returns OK only if all its steps completed and
\* the PEC byte received equals (control byte + data byte received) mod 256,
\* and then hands the caller that data byte; when all steps completed and
\* the PEC differs it returns PEC_MISMATCH with detail = the PEC byte
\* received, and when it does not differ it returns OK.
C15_ReadPec ==
  [][ op' = "_readControlByteRaw"
      => /\ ok(ret')
              => /\ ReadComplete(wire')
                 /\ ByteAt(wire', 20, "R1")
                      = (arg'[1] + ByteAt(wire', 11, "R1")) % 256
                 /\ arg'[2] = ByteAt(wire', 11, "R1")
         /\ ReadComplete(wire')
              => IF ByteAt(wire', 20, "R1")
                      = (arg'[1] + ByteAt(wire', 11, "R1")) % 256
                 THEN ok(ret')
                 ELSE /\ ret'.code = "PEC_MISMATCH"
                      /\ ret'.detail = ByteAt(wire', 20, "R1") ]_vars

\* A read with control byte 0xF1 has received data 0xFF and PEC 0xF1, where
\* the sum mod 256 is 0xF0, and returned PEC_MISMATCH with detail 0xF1.
C15_Witness ==
  /\ op = "_readControlByteRaw"
  /\ arg = <<241, 255>>
  /\ ReadComplete(wire)
  /\ ByteAt(wire, 20, "R1") = 241
  /\ ret.code = "PEC_MISMATCH"
  /\ ret.detail = 241

\* The events a complete read frame with this control byte may have at
\* position i of its record: START, the eight control bits most significant
\* first, the acknowledge, eight data bits, the master's ACK, eight PEC bits,
\* the master's NACK, STOP.
ReadShapeAt(controlByte, i) ==
  CASE i = 1 -> {"START"}
    [] i \in 2..9 -> {IF Bits(controlByte)[i - 1] THEN "W1" ELSE "W0"}
    [] i = 10 -> {"A0"}
    [] i \in 11..18 -> {"R0", "R1"}
    [] i = 19 -> {"M0"}
    [] i \in 20..27 -> {"R0", "R1"}
    [] i = 28 -> {"M1"}
    [] i = 29 -> {"STOP"}
    [] OTHER -> {}

\* C16: the steps of a read transaction follow the order START, control bits
\* MSB first, acknowledge, data bits, master ACK, PEC bits, master NACK,
\* STOP: a frame in which SCL always rises and the control byte is
\* acknowledged has exactly these 29 steps; a frame whose control byte is
\* not acknowledged ends after the acknowledge slot with a STOP (attempted:
\* it is given up if SCL does not rise), has read no bit and returns NACK;
\* any other frame is a prefix of the order cut short by a step given up and
\* the STOP attempted after it; the master's ACK occurs only after the data
\* byte, never after the PEC byte.
C16_ReadOrder ==
  [][ op' = "_readControlByteRaw"
      => /\ (Count(wire', "STALL") = 0 /\ ret'.code # "NACK")
              => /\ Len(wire') = 29
                 /\ \A i \in 1..29 : wire'[i] \in ReadShapeAt(arg'[1], i)
         /\ ret'.code = "NACK"
              => /\ Len(wire') = 11
                 /\ \A i \in 1..9 : wire'[i] \in ReadShapeAt(arg'[1], i)
                 /\ wire'[10] = "A1"
                 /\ wire'[11] \in {"STOP", "STALL"}
                 /\ Count(wire', "R0") + Count(wire', "R1") = 0
         /\ (Len(wire') >= 10 /\ wire'[10] = "A1") => ret'.code = "NACK"
         /\ \A i \in 1..Len(wire') :
              \/ wire'[i] \in ReadShapeAt(arg'[1], i)
              \/ wire'[i] = "A1" /\ i = 10
              \/ /\ i >= Len(wire') - 1
                 /\ wire'[i] = "STALL"
                 /\ ret'.code \in {"TIMEOUT", "NACK"}
              \/ /\ i = Len(wire') /\ i > 1
                 /\ wire'[i] = "STOP"
                 /\ wire'[i - 1] \in {"STALL", "A1"}
         /\ \A i \in 1..Len(wire') : wire'[i] = "M0" => i = 19 ]_vars

\* A read whose control byte 0x71 was not acknowledged: START, the eight
\* bits 0111 0001, the refused acknowledge, STOP, and NACK returned.
C16_Witness ==
  /\ op = "_readControlByteRaw"
  /\ ret = Error("NACK", "Control byte NACK", 0)
  /\ wire = <<"START", "W0", "W1", "W1", "W1", "W0", "W0", "W0", "W1", "A1", "STOP">>

\* The record of a write frame of (control, address, data) in which SCL
\* always rises and every byte is acknowledged: START, then each of the four
\* bytes control, address, data, PEC most significant bit first with its
\* acknowledge, then STOP; pecByte is the fourth byte.
WriteRecord(controlByte, addressByte, dataByte, pecByte) ==
  LET sent(value) == [i \in 1..8 |-> IF Bits(value)[i] THEN "W1" ELSE "W0"] \o <<"A0">>
  IN <<"START">> \o sent(controlByte) \o sent(addressByte) \o sent(dataByte)
       \o sent(pecByte) \o <<"STOP">>

\* C17: a write transaction of (control, address, data) returns OK only if
\* its record is the complete one: the four bytes control, address, data and
\* PEC = (control + address + data) mod 256 were sent in this order, each was
\* acknowledged, and the STOP was completed; and a frame with that record
\* returns OK.
C17_WriteAcked ==
  [][ op' = "_writeCommandRaw"
      => ( ok(ret') <=>
             wire' = WriteRecord(arg'[1], arg'[2], arg'[3],
                                 (arg'[1] + arg'[2] + arg'[3]) % 256) ) ]_vars

\* A write of (0x50, 0xC6, 0xFF), whose sum passes 255, has returned OK after
\* 38 steps ending in the acknowledge of the PEC byte 0x15 and the STOP.
C17_Witness ==
  /\ op = "_writeCommandRaw"
  /\ arg = <<80, 198, 255>>
  /\ ok(ret)
  /\ Len(wire) = 38
  /\ ByteAt(wire, 29, "W1") = 21
  /\ wire[37] = "A0"
  /\ wire[38] = "STOP"

\* The detail of the status a write of (control, address, data) returns when
\* the slave refuses the byte of this stage (1 control, 2 address, 3 data,
\* 4 PEC) and SCL always rises.
NackDetailAt(config, controlByte, addressByte, dataByte, stage) ==
  writeCommandRawSteps(
    Frame(config, [reply |-> [i \in 1..4 |-> i = stage], stallAt |-> 0,
                   persists |-> FALSE]),
    controlByte, addressByte, dataByte).st.detail

\* C18 as stated: a write transaction that returned NACK sent no byte after
\* the one refused, attempted a STOP, and the detail of its status differs
\* from the detail the same write returns when another of the four bytes is
\* the one refused.
C18_AsStated ==
  (op = "_writeCommandRaw" /\ ret.code = "NACK")
    => /\ Count(wire, "A1") = 1
       /\ Len(wire) = 9 * (Count(wire, "A0") + 1) + 2
       /\ wire[Len(wire) - 1] = "A1"
       /\ wire[Len(wire)] \in {"STOP", "STALL"}
       /\ \A stage \in 1..4 :
            stage # Count(wire, "A0") + 1
              => NackDetailAt(drv.config, arg[1], arg[2], arg[3], stage) # ret.detail

-----------------------------------------------------------------------------
(* EE871.cpp: the gates in front of the bus *)

\* The call changed nothing on the lines: no callback ran, nothing was
\* driven or sampled.
NoBusIo == ~hal /\ wire = <<>>

\* C19 as stated: on an initialised driver writeMeasurementInterval(v) with
\* v outside [150, 36000] returns OUT_OF_RANGE and does no bus I/O, whatever
\* the feature cache holds.
C19_AsStated ==
  [][ /\ op' = "writeMeasurementInterval"
      /\ drv.initialized
      /\ arg'[1] \notin INTERVAL_MIN_DECISEC..INTERVAL_MAX_DECISEC
      => /\ ret'.code = "OUT_OF_RANGE"
         /\ NoBusIo' ]_vars

\* C19: on an initialised driver writeMeasurementInterval(v) with v outside
\* [150, 36000] does no bus I/O and leaves the driver as it was; it returns
\* OUT_OF_RANGE with v as detail when the cached operating-functions byte
\* has the global-interval bit, and NOT_SUPPORTED when the bit is clear.
\* With the bit set, 150 and 36000 are not rejected as out of range.
C19_RangeBehindGate ==
  [][ /\ op' = "writeMeasurementInterval"
      /\ drv.initialized
      => /\ arg'[1] \notin INTERVAL_MIN_DECISEC..INTERVAL_MAX_DECISEC
              => /\ NoBusIo'
                 /\ drv' = drv
                 /\ hasGlobalInterval(drv)
                      => ret'.code = "OUT_OF_RANGE" /\ ret'.detail = arg'[1]
                 /\ ~hasGlobalInterval(drv) => ret'.code = "NOT_SUPPORTED"
         /\ arg'[1] \in INTERVAL_MIN_DECISEC..INTERVAL_MAX_DECISEC
              => ret'.code # "OUT_OF_RANGE" ]_vars

\* writeMeasurementInterval(36001) was rejected as out of range on a READY
\* driver whose cache has the global-interval bit.
C19_Witness ==
  /\ op = "writeMeasurementInterval"
  /\ arg[1] = INTERVAL_MAX_DECISEC + 1
  /\ drv.initialized
  /\ hasGlobalInterval(drv)
  /\ ret.code = "OUT_OF_RANGE"
  /\ NoBusIo

\* Whether the call name(a) is feature-gated and the bit of the cache that
\* it needs is clear in driver d.
GateClosed(d, name, a) ==
  CASE name = "readErrorCode" -> ~hasErrorCode(d)
    [] name = "readSerialNumber" -> ~hasSerialNumber(d)
    [] name \in {"readPartName", "writePartName"} -> ~hasPartName(d)
    [] name = "writeBusAddress" -> ~hasAddressConfig(d)
    [] name = "writeMeasurementInterval" -> ~hasGlobalInterval(d)
    [] name = "writeCo2IntervalFactor" -> ~hasSpecificInterval(d)
    [] name = "writeCo2Filter" -> ~hasFilterConfig(d)
    [] name = "writeOperatingMode" ->
         \/ HasBit(a[1], OPERATING_MODE_MEASUREMODE_MASK) /\ ~hasLowPowerMode(d)
         \/ HasBit(a[1], OPERATING_MODE_E2_PRIORITY_MASK) /\ ~hasE2Priority(d)
    [] name = "startAutoAdjust" -> ~hasAutoAdjust(d)
    [] OTHER -> FALSE

\* The call was handed a null buffer.
NullBuffer(name, a) ==
  name \in {"readSerialNumber", "readPartName", "writePartName"} /\ a[1]

\* C20 as stated: with bit 7 of the cached operating-functions byte clear,
\* readErrorCode returns NOT_SUPPORTED with no callback and no change of the
\* health counters or the state; and every feature-gated operation whose
\* cached bit is clear returns NOT_SUPPORTED with no bus I/O.
C20_AsStated ==
  [][ GateClosed(drv, op', arg')
      => /\ ret'.code = "NOT_SUPPORTED"
         /\ NoBusIo'
         /\ op' = "readErrorCode" => Health(drv') = Health(drv) ]_vars

\* C20: with bit 7 of the cached operating-functions byte clear,
\* readErrorCode returns NOT_SUPPORTED with no callback and the driver
\* unchanged, initialised or not.  Every feature-gated operation whose
\* cached bit is clear does no bus I/O and leaves the driver unchanged; it
\* returns NOT_SUPPORTED, except that a null buffer is reported first as
\* INVALID_PARAM and that writeMeasurementInterval on a driver that is not
\* initialised returns NOT_INITIALIZED.
C20_GateBeforeBus ==
  [][ GateClosed(drv, op', arg')
      => /\ NoBusIo'
         /\ drv' = drv
         /\ ret'.code =
              IF NullBuffer(op', arg') THEN "INVALID_PARAM"
              ELSE IF op' = "writeMeasurementInterval" /\ ~drv.initialized
                   THEN "NOT_INITIALIZED"
                   ELSE "NOT_SUPPORTED" ]_vars

\* readErrorCode was refused on a DEGRADED driver whose cache has bit 7
\* clear; the failures counted before the call are still counted.
C20_Witness ==
  /\ op = "readErrorCode"
  /\ ret.code = "NOT_SUPPORTED"
  /\ ~hasErrorCode(drv)
  /\ drv.initialized
  /\ drv.driverState = "DEGRADED"
  /\ drv.consecutiveFailures > 0
  /\ NoBusIo

-----------------------------------------------------------------------------
(* A session: one initialised driver and one device whose custom memory and
   read pointer last from call to call.  A step is one call of a public
   method, from call to return; the next call may follow at once.  arg
   holds, after the values passed in, the number of the frame that the bus
   made fail (0: none) and the value the method left in its reference
   argument. *)

\* No failure, or a frame of the call that the device does not acknowledge.
SessionFaults(k) == {[at |-> i, kind |-> "nack"] : i \in 0..k}

\* Idle lines, the device of the session, and the fault of this call.
SessionBus(fault) ==
  Bus(TRUE, TRUE, TRUE, TRUE, FALSE, fault.at, fault.kind, sensor)

Session(name, a, result) ==
  \E r \in {result} :
    /\ drv' = r.m.d
    /\ op' = name
    /\ arg' = a
    /\ ret' = r.st
    /\ hal' = r.m.hal
    /\ wire' = r.m.wire
    /\ log' = r.m.log
    /\ sensor' = r.m.e.dev
    /\ UNCHANGED pins

\* A driver that begin initialised on a device with every feature or on one
\* with none, and the device now on the bus: one that stores what is
\* written, one of the two whose flash does not take writes, or one of the
\* two of another group.
SessionInit ==
  /\ drv \in { begin(Machine(NewDriver,
                             Bus(TRUE, TRUE, TRUE, TRUE, FALSE, 0, "nack", s[1])),
                     s[2]).m.d
               : s \in { <<GoodDevice, TypicalConfig>>, <<GoodDevice, BoundaryConfig>>,
                         <<BareDevice, TypicalConfig>> } }
  /\ op = "none"
  /\ arg = <<>>
  /\ ret = StatusOk
  /\ hal = FALSE
  /\ wire = <<>>
  /\ log = <<>>
  /\ sensor \in {MeasuringDevice, DeafDevice, StaleDevice, OtherDevice, HighOtherDevice}
  /\ pins = IdlePins

\* Interval values on both sides of the byte boundary and at both limits.
SessionIntervals == {INTERVAL_MIN_DECISEC, 255, 256, INTERVAL_MAX_DECISEC}

SessionWriteMeasurementInterval ==
  \E v \in SessionIntervals, f \in SessionFaults(6) :
    Session("writeMeasurementInterval", <<v, f.at>>,
            writeMeasurementInterval(Machine(drv, SessionBus(f)), v))

SessionReadMeasurementInterval ==
  \E f \in SessionFaults(4) :
    \E r \in {readMeasurementInterval(Machine(drv, SessionBus(f)))} :
      Session("readMeasurementInterval", <<f.at, r.value>>, r)

\* customWrite(address, value) to an address outside the interval pair, of
\* a value the device holds already and of one it does not.
SessionCustomWrite ==
  \E value \in {0, 9}, f \in SessionFaults(3) :
    Session("customWrite", <<CUSTOM_FILTER_CO2, value, f.at>>,
            customWrite(Machine(drv, SessionBus(f)), CUSTOM_FILTER_CO2, value))

SessionProbe ==
  \E f \in SessionFaults(2) :
    Session("probe", <<f.at>>, probe(Machine(drv, SessionBus(f))))

\* The three reads of a 16-bit sensor value; arg is the fault and the value
\* handed back.
SessionReadGroup ==
  \E f \in SessionFaults(2) :
    \E r \in {readGroup(Machine(drv, SessionBus(f)), 0)} :
      Session("readGroup", <<f.at, r.value>>, r)

SessionReadCo2Fast ==
  \E f \in SessionFaults(2) :
    \E r \in {readCo2Fast(Machine(drv, SessionBus(f)))} :
      Session("readCo2Fast", <<f.at, r.value>>, r)

SessionReadCo2Average ==
  \E f \in SessionFaults(2) :
    \E r \in {readCo2Average(Machine(drv, SessionBus(f)))} :
      Session("readCo2Average", <<f.at, r.value>>, r)

SessionNext ==
  \/ SessionWriteMeasurementInterval
  \/ SessionReadMeasurementInterval
  \/ SessionCustomWrite
  \/ SessionProbe

SessionSpec == SessionInit /\ [][SessionNext]_vars

\* A session of reads of the 16-bit sensor values.
MeasureNext ==
  \/ SessionReadGroup
  \/ SessionReadCo2Fast
  \/ SessionReadCo2Average

MeasureSpec == SessionInit /\ [][MeasureNext]_vars

\* The interval the device holds in its custom memory.
StoredInterval(device) ==
  device.mem[CUSTOM_INTERVAL_L] + device.mem[CUSTOM_INTERVAL_H] * 256

\* C21: with a device that stores what is written and a bus that makes no
\* frame fail, on a driver whose cache has the global-interval bit,
\* writeMeasurementInterval(v) returns OK for every v in [150, 36000]; and
\* a readMeasurementInterval that follows an OK writeMeasurementInterval(v)
\* at once, with no frame failing, returns OK with the value v.
C21_IntervalRoundTrip ==
  [][ /\ ( /\ op' = "writeMeasurementInterval"
           /\ arg'[2] = 0
           /\ sensor.stores
           /\ drv.initialized
           /\ hasGlobalInterval(drv)
           /\ arg'[1] \in INTERVAL_MIN_DECISEC..INTERVAL_MAX_DECISEC
           => ok(ret') /\ StoredInterval(sensor') = arg'[1] )
      /\ ( /\ op = "writeMeasurementInterval"
           /\ ok(ret)
           /\ op' = "readMeasurementInterval"
           /\ arg'[1] = 0
           => ok(ret') /\ arg'[2] = arg[1] ) ]_vars

\* readMeasurementInterval has returned 36000 from a device that holds it,
\* which a writeMeasurementInterval(36000) had put there.
C21_Witness ==
  /\ op = "readMeasurementInterval"
  /\ ok(ret)
  /\ arg = <<0, INTERVAL_MAX_DECISEC>>
  /\ sensor.stores
  /\ StoredInterval(sensor) = INTERVAL_MAX_DECISEC
  /\ hasGlobalInterval(drv)

-----------------------------------------------------------------------------
(* EE871.cpp: the frames of the custom-memory operations *)

\* The frames of a pointer-set to address and of n pointer reads, as the
\* master of a driver with this configuration sends them: main command 0x5
\* in the high nibble, the device address in bits 3..1, the read bit.
PointerSetFrame(config, address) ==
  <<"WRITE", 5 * 16 + config.deviceAddress * 2, 0, address>>
PointerReadFrame(config) ==
  <<"READ", 5 * 16 + config.deviceAddress * 2 + 1, 0, 0>>
PointerReads(config, address, n) ==
  <<PointerSetFrame(config, address)>> \o [i \in 1..n |-> PointerReadFrame(config)]

IsPrefix(s, t) == Len(s) <= Len(t) /\ \A i \in 1..Len(s) : s[i] = t[i]

\* The frames of the record w: "FAILED" follows a frame that failed.
FrameMarks(w) == SelectSeq(w, LAMBDA e : e \in {"FRAME", "FAILED"})

\* Every frame of the record succeeded, but possibly the last one.
OnlyLastFailed(w) ==
  \A i \in 1..Len(FrameMarks(w)) - 1 : FrameMarks(w)[i] # "FAILED"

\* C22: customRead(A, buf, N) on an initialised driver returns INVALID_PARAM
\* for a null buffer or N = 0 and OUT_OF_RANGE for A + N > 256, both with no
\* bus I/O.  Otherwise its frames are one pointer-set write (nibble 0x5,
\* address byte 0x00, data byte A) and then pointer reads, at most N and no
\* second pointer-set; a frame follows only frames that succeeded; and the
\* call returns OK exactly when all N + 1 frames were sent and succeeded.
C22_BlockRead ==
  [][ op' = "customRead" /\ drv.initialized
      => IF arg'[2] \/ arg'[3] = 0
         THEN ret'.code = "INVALID_PARAM" /\ ~hal' /\ wire' = <<>> /\ log' = <<>>
         ELSE IF arg'[1] + arg'[3] > 256
         THEN ret'.code = "OUT_OF_RANGE" /\ ~hal' /\ wire' = <<>> /\ log' = <<>>
         ELSE /\ Len(log') >= 1
              /\ IsPrefix(log', PointerReads(drv.config, arg'[1], arg'[3]))
              /\ Count(wire', "FRAME") = Len(log')
              /\ OnlyLastFailed(wire')
              /\ ok(ret') <=> /\ Len(log') = arg'[3] + 1
                              /\ Count(wire', "FAILED") = 0 ]_vars

\* customRead(254, buf, 2), a block that ends at the end of the map, has
\* sent the pointer-set and both pointer reads and returned OK.
C22_Witness ==
  /\ op = "customRead"
  /\ arg = <<254, FALSE, 2>>
  /\ ok(ret)
  /\ Len(log) = 3
  /\ log[1][1] = "WRITE" /\ log[2][1] = "READ" /\ log[3][1] = "READ"

\* The frames and the delay of a verified single-byte write: the direct
\* write (main command 0x1), the flash delay, the pointer-set and one
\* pointer read.
VerifiedWrite(config, address, value) ==
  << <<"WRITE", 1 * 16 + config.deviceAddress * 2, address, value>>,
     <<"SLEEP", config.writeDelayMs, 0, 0>>,
     PointerSetFrame(config, address),
     PointerReadFrame(config) >>

\* C23: customWrite(A, v) on an initialised driver, A outside the interval
\* pair, sends the direct write (nibble 0x1, A, v); only if that frame
\* succeeded it waits writeDelayMs and then sends a pointer-set to A and one
\* pointer read; a frame follows only frames that succeeded.  It returns OK
\* exactly when all three frames succeeded and the device holds v at A, and
\* E2_ERROR with the byte the device holds as detail when they succeeded
\* and the byte differs.
C23_VerifiedWrite ==
  [][ /\ op' = "customWrite"
      /\ drv.initialized
      /\ arg'[1] \notin {CUSTOM_INTERVAL_L, CUSTOM_INTERVAL_H}
      => /\ Len(log') >= 1
         /\ IsPrefix(log', VerifiedWrite(drv.config, arg'[1], arg'[2]))
         /\ OnlyLastFailed(wire')
         /\ Len(log') = 1 <=> Count(wire', "FAILED") = 1 /\ Count(wire', "FRAME") = 1
         /\ ok(ret') <=> /\ Len(log') = 4
                         /\ Count(wire', "FAILED") = 0
                         /\ sensor'.mem[arg'[1]] = arg'[2]
         /\ ( /\ Len(log') = 4
              /\ Count(wire', "FAILED") = 0
              /\ sensor'.mem[arg'[1]] # arg'[2]
              => /\ ret'.code = "E2_ERROR"
                 /\ ret'.detail = sensor'.mem[arg'[1]] ) ]_vars

\* customWrite(0xD3, 9) to a device that keeps 77 there has sent its three
\* frames and returned E2_ERROR with detail 77.
C23_Witness ==
  /\ op = "customWrite"
  /\ arg = <<CUSTOM_FILTER_CO2, 9, 0>>
  /\ Len(log) = 4
  /\ ret.code = "E2_ERROR"
  /\ ret.detail = 77
  /\ sensor.mem[CUSTOM_FILTER_CO2] = 77

-----------------------------------------------------------------------------
(* EE871.cpp: recover *)

\* The driver after the frames marked on the record: _updateHealth with OK
\* for a frame that succeeded and with st for one that failed.
RECURSIVE HealthAfterFrames(_, _, _, _)
HealthAfterFrames(d, marks, i, st) ==
  IF i > Len(marks) THEN d
  ELSE IF marks[i] = "FAILED" THEN HealthAfterFrames(d, marks, i + 1, st)
  ELSE HealthAfterFrames(
         updateHealth(d, IF i < Len(marks) /\ marks[i + 1] = "FAILED"
                         THEN st ELSE StatusOk),
         marks, i + 1, st)

\* The place of the first frame on the record w (Len(w) + 1: none).
FirstFrame(w) ==
  IF Count(w, "FRAME") = 0 THEN Len(w) + 1
  ELSE CHOOSE i \in 1..Len(w) : w[i] = "FRAME" /\ \A j \in 1..i - 1 : w[j] # "FRAME"

\* C24: recover on an initialised driver starts with the clock pulses of the
\* rescue sequence, and whatever the rescue meets (SCL stuck during the
\* pulses, a line low afterwards) it goes on to the two frames of a group
\* read, of which the second is sent only if the first succeeded.  It
\* returns the status of the group read: the status of the frame that
\* failed, else DEVICE_NOT_FOUND or OK, never BUS_STUCK.  The driver
\* changes as _updateHealth changes it for these frames and in no other way.
C24_RecoverIgnoresRescue ==
  [][ op' = "recover" /\ drv.initialized
      => /\ Len(wire') > 1
         /\ wire'[1] = "CLOCK"
         /\ \A i \in FirstFrame(wire')..Len(wire') : wire'[i] \in {"FRAME", "FAILED"}
         /\ Count(wire', "FRAME") \in 1..2
         /\ OnlyLastFailed(wire')
         /\ Count(wire', "FRAME") = 1 => Count(wire', "FAILED") = 1
         /\ log' = [i \in 1..Count(wire', "FRAME") |->
                      <<"READ", (IF i = 1 THEN 1 ELSE 4) * 16
                                  + drv.config.deviceAddress * 2 + 1, 0, 0>>]
         /\ ret'.code # "BUS_STUCK"
         /\ Count(wire', "FAILED") = 0 => ret'.code \in {"OK", "DEVICE_NOT_FOUND"}
         /\ Count(wire', "FAILED") = 1 => ret'.code \in {"NACK", "TIMEOUT", "PEC_MISMATCH"}
         /\ drv' = HealthAfterFrames(drv, FrameMarks(wire'), 1, ret') ]_vars

\* recover has returned OK from a group read although SCL stayed low during
\* the first pulse of its rescue sequence.
C24_Witness ==
  /\ op = "recover"
  /\ ok(ret)
  /\ wire = <<"CLOCK", "FRAME", "FRAME">>
  /\ drv.driverState = "READY"

-----------------------------------------------------------------------------
(* EE871.cpp: the health fields over time *)

C26_AsStated ==
  [][ /\ op' = "tick"
           => ~hal' /\ wire' = <<>> /\ drv' = [drv EXCEPT !.nowMs = arg'[1]]
      /\ op' \notin {"none", "tick"} => drv'.nowMs = drv.nowMs
      /\ ( IsTracked(op') /\ drv.initialized /\ Count(wire', "FRAME") > 0
           => IF Count(wire', "FAILED") = 0
              THEN drv'.lastOkMs = drv.nowMs
              ELSE drv'.lastErrorMs = drv.nowMs ) ]_vars

\* C27: end invokes no callback, clears the initialised flag and sets the
\* state to UNINIT from any state, and changes nothing else: the totals,
\* the consecutive-failure count, the timestamps and the last error stay.
\* A begin that returns OK leaves the totals, the count and the timestamps
\* zero and the last error OK.
C27_EndKeepsCounters ==
  [][ /\ op' = "end"
           => /\ ~hal' /\ wire' = <<>>
              /\ drv' = [drv EXCEPT !.initialized = FALSE, !.driverState = "UNINIT"]
      /\ op' = "begin" /\ ok(ret')
           => /\ drv'.totalSuccess = 0
              /\ drv'.totalFailures = 0
              /\ drv'.consecutiveFailures = 0
              /\ drv'.lastOkMs = 0
              /\ drv'.lastErrorMs = 0
              /\ drv'.lastError = StatusOk ]_vars

\* end has been called on an OFFLINE driver: the state is UNINIT and the
\* successes, the failures, their times and the last error are still there.
C27_Witness ==
  /\ op = "end"
  /\ drv.driverState = "UNINIT"
  /\ ~drv.initialized
  /\ drv.totalSuccess > 0
  /\ drv.totalFailures > 0
  /\ drv.consecutiveFailures >= drv.config.offlineThreshold
  /\ drv.lastOkMs > 0
  /\ drv.lastErrorMs > 0
  /\ ~ok(drv.lastError)

-----------------------------------------------------------------------------
(* EE871.cpp: termination of the waits *)

\* ceil(bitTimeoutUs / kPollStepUs)
MaxPolls(bitTimeoutUs) == (bitTimeoutUs + kPollStepUs - 1) \div kPollStepUs

\* waitSclHigh in one piece, as the frames use it, for the wait that arg
\* describes when the slave holds SCL for good.
StalledWait ==
  waitSclHigh([Frame([drv.config EXCEPT !.bitTimeoutUs = arg[1],
                                        !.byteTimeoutUs = arg[2]],
                     [reply |-> <<>>, stallAt |-> 1, persists |-> FALSE])
                 EXCEPT !.elapsed = IF arg[3] < 0 THEN 0 ELSE arg[3]],
              arg[3] >= 0)

\* The wait of the record w that was given up first came before any byte
\* was refused (Len(w) + 1 stands for no such wait).
StalledUnrefused(w) ==
  \E i \in 1..Len(w) :
    /\ w[i] = "STALL"
    /\ \A j \in 1..i - 1 : w[j] \notin {"STALL", "A1"}

\* C28: a wait for SCL polls at most ceil(bitTimeoutUs / 5) times; when SCL
\* never rises it returns TIMEOUT, the status the frames take from it, and
\* when SCL rises in time it returns OK; a wait that has begun returns.  A
\* read frame is over after at most 29 steps and a write frame after at
\* most 38, whatever the slave does with SCL and SDA, with at most two
\* waits given up, and a frame whose START, bit or STOP wait was given up
\* returns TIMEOUT.
C28_WaitsEnd ==
  /\ [](op \in {"waitSclHigh:loop", "waitSclHigh"}
          => /\ Len(wire) <= MaxPolls(arg[1])
             /\ op = "waitSclHigh"
                  => /\ arg[4] < 0 => ret.code = "TIMEOUT" /\ ret = StalledWait.st
                     /\ ret.code = "TIMEOUT" => PollSclLow
                     /\ ok(ret) => Len(wire) = arg[4])
  /\ [][ op' \in {"_readControlByteRaw", "_writeCommandRaw"}
         => /\ Len(wire') <= (IF op' = "_readControlByteRaw" THEN 29 ELSE 38)
            /\ Count(wire', "STALL") <= 2
            /\ StalledUnrefused(wire') => ret'.code = "TIMEOUT" ]_vars
  /\ (op = "waitSclHigh:loop") ~> (op = "waitSclHigh")

\* A wait with a bit timeout of 23 us in which SCL never rose has returned
\* TIMEOUT after five polls, 25 us.
C28_Witness ==
  /\ op = "waitSclHigh"
  /\ arg[1] = 23
  /\ arg[4] < 0
  /\ Len(wire) = 5
  /\ ret = Error("TIMEOUT", "Clock stretch timeout", 25)

-----------------------------------------------------------------------------
(* EE871.cpp: probe *)

\* C29: probe on an initialised driver reads type-low (nibble 0x1) and, only
\* if that frame succeeded, type-high (nibble 0x4), and leaves the driver
\* as it was.  It returns OK exactly when both frames succeeded and the
\* device's group, low | high << 8, is 0x0367; DEVICE_NOT_FOUND with the
\* group as detail when both succeeded and the group is another; and the
\* status of the frame that failed otherwise.
C29_Probe ==
  [][ op' = "probe" /\ drv.initialized
      => /\ Len(log') >= 1
         /\ IsPrefix(log', << <<"READ", 1 * 16 + drv.config.deviceAddress * 2 + 1, 0, 0>>,
                              <<"READ", 4 * 16 + drv.config.deviceAddress * 2 + 1, 0, 0>> >>)
         /\ OnlyLastFailed(wire')
         /\ Count(wire', "FRAME") = Len(log')
         /\ Len(log') = 1 => Count(wire', "FAILED") = 1
         /\ drv' = drv
         /\ ok(ret') <=> /\ Len(log') = 2
                         /\ Count(wire', "FAILED") = 0
                         /\ sensor.group = 3 * 256 + 6 * 16 + 7
         /\ ( /\ Len(log') = 2
              /\ Count(wire', "FAILED") = 0
              /\ sensor.group # 3 * 256 + 6 * 16 + 7
              => ret'.code = "DEVICE_NOT_FOUND" /\ ret'.detail = sensor.group )
         /\ Count(wire', "FAILED") = 1 => ret'.code = "NACK" ]_vars

\* probe has read both type bytes of a device whose group differs from
\* 0x0367 in the high byte only and returned DEVICE_NOT_FOUND with that
\* group.
C29_Witness ==
  /\ op = "probe"
  /\ Len(log) = 2
  /\ ret.code = "DEVICE_NOT_FOUND"
  /\ ret.detail = 4 * 256 + 6 * 16 + 7
  /\ sensor.group = ret.detail

-----------------------------------------------------------------------------
(* EE871.cpp: the failure returns of the raw transactions *)

\* The steps of a complete frame: START, the bytes with their acknowledge
\* slots, STOP.
FrameSteps(name) == IF name = "_readControlByteRaw" THEN 29 ELSE 38

\* The steps of the record at which the frame failed: a wait for SCL given
\* up, or a byte sent that was not acknowledged.
FailedSteps(w) == {i \in 1..Len(w) : w[i] \in {"STALL", "A1"}}

\* The first of them.
FailingStep(w) == CHOOSE i \in FailedSteps(w) : \A j \in FailedSteps(w) : i <= j

\* C30: in a read or write transaction, a failed START ends the frame with
\* no STOP attempted and START's timeout returned; a failure of a later
\* step (a wait for SCL given up, an acknowledge slot left high) is followed
\* by exactly one attempt at STOP, whether SCL rises for it or not, and the
\* frame returns the status of the step that failed: TIMEOUT for the wait,
\* NACK for the acknowledge slot.
C30_OneStopAfterFailure ==
  [][ op' \in {"_readControlByteRaw", "_writeCommandRaw"} /\ FailedSteps(wire') # {}
      => \E i \in {FailingStep(wire')} :
           /\ i = 1 => /\ wire' = <<"STALL">>
                       /\ ret' = waitSclHighTimeout(drv.config)
           /\ i > 1 => /\ wire'[1] = "START"
                       /\ Count(SubSeq(wire', 1, i - 1), "STOP") = 0
                       /\ ret'.code = IF wire'[i] = "A1" THEN "NACK" ELSE "TIMEOUT"
           /\ i > 1 /\ i < FrameSteps(op')
                => /\ Len(wire') = i + 1
                   /\ wire'[i + 1] \in {"STOP", "STALL"}
           /\ i = FrameSteps(op') => Len(wire') = i ]_vars

\* A frame whose control byte was not acknowledged and whose STOP was given
\* up because SCL stayed low has returned NACK.
C30_Witness ==
  /\ op \in {"_readControlByteRaw", "_writeCommandRaw"}
  /\ Len(wire) = 11
  /\ wire[10] = "A1"
  /\ wire[11] = "STALL"
  /\ ret.code = "NACK"

-----------------------------------------------------------------------------
(* The lines, one HAL callback at a time *)

\* One callback of a function, or one test it makes between callbacks.
\* k: SDA and SCL are setSda(v) and setScl(v); WAIT is waitSclHigh; RWAIT
\* is the wait loop written out in busReset; READSDA is readSda in readBit
\* and readAck; SAMPLE is the idle test that ends busReset; ZERO is
\* elapsedUs = 0; CHECK is if (!acked); RETURN is the return that ends the
\* function.  prim: the primitive the callback belongs to.  us: the delayUs
\* that follows it, where it is added to *elapsedUs (counted); a delay that
\* is not counted has no effect on the function and is left out.  msg: the
\* message of the NACK a CHECK returns.
HalCall(k, prim, v, us, counted, msg) ==
  [k |-> k, prim |-> prim, v |-> v, us |-> us, counted |-> counted, msg |-> msg]

RECURSIVE Concat(_)
Concat(ss) == IF Len(ss) = 0 THEN <<>> ELSE Head(ss) \o Concat(Tail(ss))

e2StartCalls(cfg) ==
  << HalCall("SDA", "START", TRUE, 0, FALSE, ""),
     HalCall("SCL", "START", TRUE, 0, FALSE, ""),
     HalCall("WAIT", "START", TRUE, 0, FALSE, ""),
     HalCall("SDA", "START", FALSE, 0, FALSE, ""),
     HalCall("SCL", "START", FALSE, 0, FALSE, "") >>

e2StopCalls(cfg) ==
  << HalCall("SDA", "STOP", FALSE, 0, FALSE, ""),
     HalCall("SCL", "STOP", TRUE, 0, FALSE, ""),
     HalCall("WAIT", "STOP", TRUE, 0, FALSE, ""),
     HalCall("SDA", "STOP", TRUE, 0, FALSE, "") >>

writeBitCalls(cfg, bit) ==
  << HalCall("SDA", "writeBit", bit, kDataSetupUs, TRUE, ""),
     HalCall("SCL", "writeBit", TRUE, 0, TRUE, ""),
     HalCall("WAIT", "writeBit", TRUE, cfg.clockHighUs, TRUE, ""),
     HalCall("SCL", "writeBit", FALSE, cfg.clockLowUs, TRUE, "") >>

readBitCalls(cfg) ==
  << HalCall("SDA", "readBit", TRUE, kDataSetupUs, TRUE, ""),
     HalCall("SCL", "readBit", TRUE, 0, TRUE, ""),
     HalCall("WAIT", "readBit", TRUE, cfg.clockHighUs \div 2, TRUE, ""),
     HalCall("READSDA", "readBit", TRUE, cfg.clockHighUs - cfg.clockHighUs \div 2, TRUE, ""),
     HalCall("SCL", "readBit", FALSE, cfg.clockLowUs, TRUE, "") >>

\* readAck, and the test of acked that follows it in the raw transactions.
readAckCalls(cfg, message) ==
  << HalCall("SDA", "readAck", TRUE, kDataSetupUs, TRUE, ""),
     HalCall("SCL", "readAck", TRUE, 0, TRUE, ""),
     HalCall("WAIT", "readAck", TRUE, cfg.clockHighUs \div 2, TRUE, ""),
     HalCall("READSDA", "readAck", TRUE, cfg.clockHighUs - cfg.clockHighUs \div 2, TRUE, ""),
     HalCall("SCL", "readAck", FALSE, cfg.clockLowUs, TRUE, ""),
     HalCall("CHECK", "readAck", TRUE, 0, FALSE, message) >>

sendAckCalls(cfg, ack) ==
  << HalCall("SDA", "sendAck", ~ack, kDataSetupUs, TRUE, ""),
     HalCall("SCL", "sendAck", TRUE, 0, TRUE, ""),
     HalCall("WAIT", "sendAck", TRUE, cfg.clockHighUs, TRUE, ""),
     HalCall("SCL", "sendAck", FALSE, cfg.clockLowUs, TRUE, ""),
     HalCall("SDA", "sendAck", TRUE, 0, FALSE, "") >>

writeByteCalls(cfg, value) ==
  Concat([i \in 1..8 |-> writeBitCalls(cfg, Bits(value)[i])])

readByteCalls(cfg) == Concat([i \in 1..8 |-> readBitCalls(cfg)])

ZeroElapsed == HalCall("ZERO", "", TRUE, 0, FALSE, "")

ReturnCall == HalCall("RETURN", "", TRUE, 0, FALSE, "")

\* EE871::_readControlByteRaw as the callbacks it makes when nothing fails.
readControlByteRawCalls(cfg, controlByte) ==
  e2StartCalls(cfg)
  \o <<ZeroElapsed>> \o writeByteCalls(cfg, controlByte)
  \o readAckCalls(cfg, "Control byte NACK")
  \o <<ZeroElapsed>> \o readByteCalls(cfg) \o sendAckCalls(cfg, TRUE)
  \o <<ZeroElapsed>> \o readByteCalls(cfg) \o sendAckCalls(cfg, FALSE)
  \o e2StopCalls(cfg) \o <<ReturnCall>>

\* EE871::_writeCommandRaw as the callbacks it makes when nothing fails.
writeCommandRawCalls(cfg, controlByte, addressByte, dataByte) ==
  e2StartCalls(cfg)
  \o <<ZeroElapsed>> \o writeByteCalls(cfg, controlByte)
  \o readAckCalls(cfg, "Control byte NACK")
  \o <<ZeroElapsed>> \o writeByteCalls(cfg, addressByte)
  \o readAckCalls(cfg, "Address byte NACK")
  \o <<ZeroElapsed>> \o writeByteCalls(cfg, dataByte)
  \o readAckCalls(cfg, "Data byte NACK")
  \o <<ZeroElapsed>>
  \o writeByteCalls(cfg, calcPecWrite(controlByte, addressByte, dataByte))
  \o readAckCalls(cfg, "PEC NACK")
  \o e2StopCalls(cfg) \o <<ReturnCall>>

\* EE871::busReset on an initialised driver as the callbacks it makes when
\* no clock uses up its wait.
busResetCalls(cfg) ==
  << HalCall("SDA", "busReset", TRUE, 0, FALSE, "") >>
  \o Concat([i \in 1..BUS_RESET_CLOCKS |->
               << HalCall("SCL", "busReset", FALSE, 0, FALSE, ""),
                  HalCall("SCL", "busReset", TRUE, 0, FALSE, ""),
                  HalCall("RWAIT", "busReset", TRUE, 0, FALSE, "") >>])
  \o << HalCall("SCL", "busReset", FALSE, 0, FALSE, ""),
        HalCall("SDA", "busReset", FALSE, 0, FALSE, ""),
        HalCall("SCL", "busReset", TRUE, 0, FALSE, ""),
        HalCall("SDA", "busReset", TRUE, 0, FALSE, ""),
        HalCall("SAMPLE", "busReset", TRUE, 0, FALSE, "") >>

\* The configurations the lines are followed under.
LineConfigs == {TightConfig, ShortBitConfig}

\* The control bytes a frame is entered with: of the read, and of the
\* write with its address byte 0 and data byte 7.
LineReadControl(cfg) == makeControlRead(MAIN_STATUS, cfg.deviceAddress)

LineWriteControl(cfg) == makeControlWrite(MAIN_CUSTOM_PTR, cfg.deviceAddress)

\* The callbacks of each function under each configuration.
LineReadCalls ==
  [cfg \in LineConfigs |-> readControlByteRawCalls(cfg, LineReadControl(cfg))]

LineWriteCalls ==
  [cfg \in LineConfigs |-> writeCommandRawCalls(cfg, LineWriteControl(cfg), 0, 7)]

LineResetCalls == [cfg \in LineConfigs |-> busResetCalls(cfg)]

LineStopCalls == [cfg \in LineConfigs |-> e2StopCalls(cfg) \o <<ReturnCall>>]

\* The callbacks of the function in progress: the e2Stop of a failure
\* return and the return, or the function from its start.
LineScript ==
  IF pins.stage = "abort" THEN LineStopCalls[drv.config]
  ELSE IF op = "_readControlByteRaw:run" THEN LineReadCalls[drv.config]
  ELSE IF op = "_writeCommandRaw:run" THEN LineWriteCalls[drv.config]
  ELSE LineResetCalls[drv.config]

LineAt == LineScript[pins.pc]

\* What readScl returns: the line is high when neither side holds it low.
SclHigh == pins.scl /\ ~pins.hold

\* The name of the function in progress.
LineName ==
  CASE op = "_readControlByteRaw:run" -> "_readControlByteRaw"
    [] op = "_writeCommandRaw:run" -> "_writeCommandRaw"
    [] OTHER -> "busReset"

\* The function goes on to its next callback after the delay of this one.
LineStep(p) ==
  /\ pins' = [p EXCEPT !.pc = pins.pc + 1,
                       !.waited = 0,
                       !.elapsed = IF LineAt.counted THEN p.elapsed + LineAt.us
                                   ELSE p.elapsed]
  /\ UNCHANGED <<op, ret>>

\* The function returns st.
LineDone(p, st) ==
  /\ pins' = [p EXCEPT !.stage = "idle", !.pc = 0, !.waited = 0, !.elapsed = 0,
                       !.samples = 0, !.acked = FALSE, !.st = StatusOk]
  /\ op' = LineName
  /\ ret' = st

\* A step after START has failed with st: the e2Stop of the failure return
\* is next.
LineAbort(p, st) ==
  /\ pins' = [p EXCEPT !.stage = "abort", !.pc = 1, !.waited = 0, !.st = st]
  /\ UNCHANGED <<op, ret>>

\* The level the slave presents at the next readSda of a frame: arg[4] is
\* its reply, one level for each readSda of the frame.
LineLevel ==
  IF pins.samples < Len(arg[4]) THEN arg[4][pins.samples + 1] ELSE TRUE

\* The status of a frame whose STOP has been sent: a read compares the PEC
\* byte it received (the last eight levels of the reply) with the one it
\* computes from the control byte and the data byte (the eight before).
LineFinalStatus ==
  IF op = "_readControlByteRaw:run" /\ arg[3] # calcPecRead(arg[1], arg[2])
  THEN Error("PEC_MISMATCH", "PEC mismatch", arg[3])
  ELSE StatusOk

\* An initialised driver with a bit timeout of two polls, idle lines.
LineInit ==
  /\ drv \in { begin(Machine(NewDriver, QuietBus), config).m.d
               : config \in LineConfigs }
  /\ op = "none"
  /\ arg = <<>>
  /\ ret = StatusOk
  /\ hal = FALSE
  /\ wire = <<>>
  /\ log = <<>>
  /\ sensor = GoodDevice
  /\ pins = IdlePins

\* A function is entered: its locals are fresh, the lines are as the last
\* call and the slave left them.
LineEnter(name, a, stage) ==
  /\ op = "none"
  /\ pins.stage = "idle"
  /\ op' = name
  /\ arg' = a
  /\ ret' = StatusOk
  /\ hal' = FALSE
  /\ pins' = [pins EXCEPT !.stage = stage, !.pc = 1,
                          !.sclRead = "none", !.sdaRead = "none"]
  /\ UNCHANGED <<drv, wire, log, sensor>>

\* _readControlByteRaw is entered; the slave will acknowledge the control
\* byte or not and send a data byte and a PEC byte that is right or wrong.
LineRead ==
  \E acks \in BOOLEAN, data \in {90}, pecError \in {0, 1} :
    \E controlByte \in {LineReadControl(drv.config)} :
      LineEnter("_readControlByteRaw:run",
                <<controlByte, data, (controlByte + data + pecError) % 256,
                  <<~acks>> \o Bits(data)
                    \o Bits((controlByte + data + pecError) % 256)>>,
                "frame")

\* _writeCommandRaw is entered; the slave will refuse one of the four bytes
\* or none.
LineWrite ==
  \E nackAt \in 0..4 :
    LineEnter("_writeCommandRaw:run",
              <<LineWriteControl(drv.config), 0, 7, [i \in 1..4 |-> i = nackAt]>>,
              "frame")

\* busReset is entered.
LineBusReset == LineEnter("busReset:run", <<>>, "reset")

\* setSda(level)
LineSetSda ==
  /\ pins.stage # "idle"
  /\ LineAt.k = "SDA"
  /\ LineStep([pins EXCEPT !.sda = LineAt.v])
  /\ hal' = TRUE
  /\ UNCHANGED <<drv, arg, wire, log, sensor>>

\* setScl(level)
LineSetScl ==
  /\ pins.stage # "idle"
  /\ LineAt.k = "SCL"
  /\ LineStep([pins EXCEPT !.scl = LineAt.v])
  /\ hal' = TRUE
  /\ UNCHANGED <<drv, arg, wire, log, sensor>>

\* elapsedUs = 0
LineZero ==
  /\ pins.stage # "idle"
  /\ LineAt.k = "ZERO"
  /\ LineStep([pins EXCEPT !.elapsed = 0])
  /\ UNCHANGED <<drv, arg, hal, wire, log, sensor>>

\* waitSclHigh: readScl returns high and the loop ends.
LineWaitRisen ==
  /\ pins.stage # "idle"
  /\ LineAt.k = "WAIT"
  /\ SclHigh
  /\ LineStep([pins EXCEPT !.sclRead = "high"])
  /\ hal' = TRUE
  /\ UNCHANGED <<drv, arg, wire, log, sensor>>

\* The two timeout tests of waitSclHigh.
LineBitTimeout == pins.waited >= drv.config.bitTimeoutUs

LineByteTimeout ==
  LineAt.counted /\ pins.elapsed + kPollStepUs > drv.config.byteTimeoutUs

\* waitSclHigh: readScl returns low, no timeout is reached, and the loop
\* delays one poll step.
LineWaitPoll ==
  /\ pins.stage # "idle"
  /\ LineAt.k = "WAIT"
  /\ ~SclHigh
  /\ ~LineBitTimeout /\ ~LineByteTimeout
  /\ pins' = [pins EXCEPT !.sclRead = "low",
                          !.waited = pins.waited + kPollStepUs,
                          !.elapsed = IF LineAt.counted
                                      THEN pins.elapsed + kPollStepUs
                                      ELSE pins.elapsed]
  /\ hal' = TRUE
  /\ UNCHANGED <<drv, op, arg, ret, wire, log, sensor>>

\* waitSclHigh: readScl returns low and a timeout is reached.  e2Start
\* returns it to the caller, which returns it; e2Stop returns it to the
\* caller, which returns it at the end of the frame and drops it in a
\* failure return; the other primitives return it to the caller, which
\* calls e2Stop and returns it.
LineWaitTimeout ==
  /\ pins.stage # "idle"
  /\ LineAt.k = "WAIT"
  /\ ~SclHigh
  /\ LineBitTimeout \/ LineByteTimeout
  /\ \E st \in { IF LineBitTimeout
                  THEN Error("TIMEOUT", "Clock stretch timeout", pins.waited)
                  ELSE Error("TIMEOUT", "Byte timeout", pins.elapsed) } :
     \E p \in {[pins EXCEPT !.sclRead = "low"]} :
       IF LineAt.prim = "START" THEN LineDone(p, st)
       ELSE IF LineAt.prim = "STOP"
       THEN LineDone(p, IF pins.stage = "abort" THEN pins.st ELSE st)
       ELSE LineAbort(p, st)
  /\ hal' = TRUE
  /\ UNCHANGED <<drv, arg, wire, log, sensor>>

\* readSda in readBit and readAck; readAck sets acked.
LineReadSda ==
  /\ pins.stage # "idle"
  /\ LineAt.k = "READSDA"
  /\ LineStep([pins EXCEPT !.samples = pins.samples + 1,
                           !.sdaRead = IF LineLevel THEN "high" ELSE "low",
                           !.acked = IF LineAt.prim = "readAck" THEN ~LineLevel
                                     ELSE pins.acked])
  /\ hal' = TRUE
  /\ UNCHANGED <<drv, arg, wire, log, sensor>>

\* if (!acked) { e2Stop(_config); return NACK; }
LineCheckAck ==
  /\ pins.stage # "idle"
  /\ LineAt.k = "CHECK"
  /\ IF pins.acked THEN LineStep(pins)
     ELSE LineAbort(pins, Error("NACK", LineAt.msg, 0))
  /\ UNCHANGED <<drv, arg, hal, wire, log, sensor>>

\* The return that ends a frame: the status kept by a failure return, or
\* the status of the complete frame.
LineReturn ==
  /\ pins.stage # "idle"
  /\ LineAt.k = "RETURN"
  /\ LineDone(pins, IF pins.stage = "abort" THEN pins.st ELSE LineFinalStatus)
  /\ UNCHANGED <<drv, arg, hal, wire, log, sensor>>

\* The wait loop of busReset: while (!readScl && waited < bitTimeoutUs)
\* with SCL low and budget left delays one poll step.
LineResetPoll ==
  /\ pins.stage # "idle"
  /\ LineAt.k = "RWAIT"
  /\ ~SclHigh
  /\ pins.waited < drv.config.bitTimeoutUs
  /\ pins' = [pins EXCEPT !.sclRead = "low",
                          !.waited = pins.waited + kPollStepUs]
  /\ hal' = TRUE
  /\ UNCHANGED <<drv, op, arg, ret, wire, log, sensor>>

\* The wait loop of busReset ends, because readScl returned high or because
\* the budget is used up, and if (waited >= bitTimeoutUs) follows.
LineResetWaited ==
  /\ pins.stage # "idle"
  /\ LineAt.k = "RWAIT"
  /\ SclHigh \/ pins.waited >= drv.config.bitTimeoutUs
  /\ \E p \in {[pins EXCEPT !.sclRead = IF SclHigh THEN "high" ELSE "low"]} :
       IF pins.waited >= drv.config.bitTimeoutUs
       THEN LineDone(p, Error("BUS_STUCK", "SCL stuck during reset", 0))
       ELSE LineStep(p)
  /\ hal' = TRUE
  /\ UNCHANGED <<drv, arg, wire, log, sensor>>

\* if (!readScl || !readSda) at the end of busReset: readSda is called only
\* when readScl returned high.
LineIdleTest ==
  /\ pins.stage # "idle"
  /\ LineAt.k = "SAMPLE"
  /\ IF ~SclHigh
     THEN LineDone([pins EXCEPT !.sclRead = "low"],
                   Error("BUS_STUCK", "Bus stuck after reset", 0))
     ELSE IF ~(pins.sda /\ ~pins.pull)
     THEN LineDone([pins EXCEPT !.sclRead = "high", !.sdaRead = "low"],
                   Error("BUS_STUCK", "Bus stuck after reset", 0))
     ELSE LineDone([pins EXCEPT !.sclRead = "high", !.sdaRead = "high"], StatusOk)
  /\ hal' = TRUE
  /\ UNCHANGED <<drv, arg, wire, log, sensor>>

\* The slave stretches the clock: it takes hold of SCL while the master
\* drives it low.
SlaveHold ==
  /\ ~pins.scl
  /\ ~pins.hold
  /\ pins' = [pins EXCEPT !.hold = TRUE]
  /\ UNCHANGED <<drv, op, arg, ret, hal, wire, log, sensor>>

\* The slave lets go of SCL, at any moment.
SlaveRelease ==
  /\ pins.hold
  /\ pins' = [pins EXCEPT !.hold = FALSE]
  /\ UNCHANGED <<drv, op, arg, ret, hal, wire, log, sensor>>

\* A slave stopped in the middle of a byte holds SDA low, or lets go of it,
\* while the rescue clocks run.
SlavePull ==
  /\ pins.stage = "reset"
  /\ pins' = [pins EXCEPT !.pull = ~pins.pull]
  /\ UNCHANGED <<drv, op, arg, ret, hal, wire, log, sensor>>

\* The caller takes the result.
LineReturned ==
  /\ pins.stage = "idle"
  /\ Return

LineNext ==
  \/ LineRead
  \/ LineWrite
  \/ LineBusReset
  \/ LineSetSda
  \/ LineSetScl
  \/ LineZero
  \/ LineWaitRisen
  \/ LineWaitPoll
  \/ LineWaitTimeout
  \/ LineReadSda
  \/ LineCheckAck
  \/ LineReturn
  \/ LineResetPoll
  \/ LineResetWaited
  \/ LineIdleTest
  \/ SlaveHold
  \/ SlaveRelease
  \/ SlavePull
  \/ LineReturned

LineSpec == LineInit /\ [][LineNext]_vars

-----------------------------------------------------------------------------
(* EE871.cpp: the master's SDA edges *)

\* A read or write transaction is in progress.
InFrame == op \in {"_readControlByteRaw:run", "_writeCommandRaw:run"}

\* The step is the SDA edge of an intended condition: the fall that e2Start
\* makes after its wait, or the rise that e2Stop makes after its wait.
IntendedEdge ==
  \/ LineAt.prim = "START" /\ pins.pc = 4 /\ pins.stage = "frame"
  \/ LineAt.prim = "STOP" /\ LineAt.v /\ LineAt.k = "SDA"

\* C31 as stated: during a read or write transaction, its failure returns
\* included, the master changes the level it drives on SDA only while SCL
\* reads low, except for the edge of its START and of its STOP, whenever
\* the slave lets go of a stretched SCL.
C31_AsStated ==
  [][ InFrame /\ pins'.sda # pins.sda => ~SclHigh \/ IntendedEdge ]_vars

\* The part of C31 that holds: as long as no wait for SCL has timed out in
\* the frame, the master changes SDA only while it drives SCL low itself,
\* except for the two intended edges and for the release of SDA that opens
\* e2Start when an earlier frame left SDA low.
C31_UntilTimeout ==
  [][ /\ InFrame
      /\ pins.stage = "frame"
      /\ pins'.sda # pins.sda
      => \/ ~pins.scl
         \/ IntendedEdge
         \/ LineAt.prim = "START" /\ pins.pc = 1 ]_vars

-----------------------------------------------------------------------------
(* EE871.cpp: the byte timeout *)

\* *elapsedUs of the byte in progress when the raw transaction returned.
ElapsedAtReturn == log[1][2]

\* C32 as stated: a transfer whose accumulated delay within one byte (its
\* eight bit clocks and its ACK clock) exceeds byteTimeoutUs fails with
\* TIMEOUT, under every valid configuration and whether or not the slave
\* stretches the clock.
C32_AsStated ==
  (op \in {"_readControlByteRaw", "_writeCommandRaw"}
   /\ ElapsedAtReturn > drv.config.byteTimeoutUs)
  => ret.code = "TIMEOUT"

\* The part of C32 that holds: the accumulator is tested only where a wait
\* for SCL finds SCL low, so a frame in which SCL was never found low does
\* not time out, whatever its bytes accumulated, and a byte timeout is
\* returned only by a frame that met a stretched clock.
C32_OnlyAtAPoll ==
  op \in {"_readControlByteRaw", "_writeCommandRaw"}
  => /\ Count(wire, "STALL") = 0 => ret.code # "TIMEOUT"
     /\ ret.msg = "Byte timeout"
          => /\ ret.code = "TIMEOUT"
             /\ Count(wire, "STALL") >= 1
             /\ ret.detail + kPollStepUs > drv.config.byteTimeoutUs

-----------------------------------------------------------------------------
(* EE871.cpp: writes to the interval pair *)

\* The frames and the delay of a write of the interval pair: direct write
\* (nibble 0x1) of the low byte to 0xC6 and of the high byte to 0xC7, the
\* pair's flash delay, read-back of 0xC6 and of 0xC7.
IntervalWrite(config, v) ==
  << <<"WRITE", 1 * 16 + config.deviceAddress * 2, 12 * 16 + 6, v % 256>>,
     <<"WRITE", 1 * 16 + config.deviceAddress * 2, 12 * 16 + 7, v \div 256>>,
     <<"SLEEP", config.intervalWriteDelayMs, 0, 0>> >>
  \o PointerReads(config, 12 * 16 + 6, 1)
  \o PointerReads(config, 12 * 16 + 7, 1)

\* The call went through that sequence with v: it sent the sequence up to
\* the first frame that failed, and returned OK only after the whole of it,
\* and E2_ERROR with the pair read back when that is not v.
WentThrough(l, w, st, config, v) ==
  /\ Len(l) >= 1
  /\ Len(l) # 3
  /\ IsPrefix(l, IntervalWrite(config, v))
  /\ OnlyLastFailed(w)
  /\ Len(l) < 7 => Count(w, "FAILED") = 1
  /\ ok(st) => Len(l) = 7 /\ Count(w, "FAILED") = 0
  /\ Len(l) = 7 /\ Count(w, "FAILED") = 0
       => \/ ok(st)
          \/ /\ st.code = "E2_ERROR"
             /\ st.detail = StoredInterval(DeafDevice)
             /\ st.detail # v

\* A direct write to address a.
IsDirectWrite(entry, a) ==
  entry[1] = "WRITE" /\ entry[2] \div 16 = 1 /\ entry[3] = a

\* C33: writeMeasurementInterval(v) past its feature gate and range check
\* goes through the sequence of IntervalWrite with v.  customWrite to 0xC6
\* or 0xC7 reads the other byte of the pair (pointer-set and one pointer
\* read) and then, with v assembled from its value and that byte, returns
\* NOT_SUPPORTED or OUT_OF_RANGE (detail v) with no further frame, or goes
\* through the same sequence with v.  In every operation a direct write to
\* 0xC6 is followed at once by the direct write to 0xC7 unless it failed,
\* and a direct write to 0xC7 follows one to 0xC6.
C33_IntervalPairSequence ==
  [][ /\ ( /\ op' = "writeMeasurementInterval"
           /\ drv.initialized
           /\ hasGlobalInterval(drv)
           /\ arg'[1] >= 150 /\ arg'[1] <= 36000
           => WentThrough(log', wire', ret', drv.config, arg'[1]) )
      /\ ( /\ op' = "customWrite"
           /\ drv.initialized
           /\ arg'[1] \in {12 * 16 + 6, 12 * 16 + 7}
           => /\ Len(log') >= 1
              /\ OnlyLastFailed(wire')
              /\ IsPrefix(SubSeq(log', 1, Min(2, Len(log'))),
                          PointerReads(drv.config,
                                       IF arg'[1] = 12 * 16 + 6 THEN 12 * 16 + 7
                                       ELSE 12 * 16 + 6, 1))
              /\ Len(log') = 1 => Count(wire', "FAILED") = 1
              /\ Len(log') = 2 /\ Count(wire', "FAILED") = 1 => ~ok(ret')
              /\ Len(log') >= 2
                   /\ ~(Len(log') = 2 /\ Count(wire', "FAILED") = 1)
                   => \E other \in 0..255 :
                        \E v \in { IF arg'[1] = 12 * 16 + 6
                                   THEN arg'[2] + other * 256
                                   ELSE other + arg'[2] * 256 } :
                          IF ~hasGlobalInterval(drv)
                          THEN Len(log') = 2 /\ ret'.code = "NOT_SUPPORTED"
                          ELSE IF v < 150 \/ v > 36000
                          THEN /\ Len(log') = 2
                               /\ ret'.code = "OUT_OF_RANGE"
                               /\ ret'.detail = v
                          ELSE /\ Len(log') >= 3
                               /\ WentThrough(SubSeq(log', 3, Len(log')), wire', ret',
                                              drv.config, v) )
      /\ \A i \in 1..Len(log') :
           /\ IsDirectWrite(log'[i], 12 * 16 + 6)
                => /\ op' \in {"customWrite", "writeMeasurementInterval"}
                   /\ \/ i = Len(log') /\ Count(wire', "FAILED") = 1
                      \/ i < Len(log') /\ IsDirectWrite(log'[i + 1], 12 * 16 + 7)
           /\ IsDirectWrite(log'[i], 12 * 16 + 7)
                => i > 1 /\ IsDirectWrite(log'[i - 1], 12 * 16 + 6) ]_vars

\* customWrite(0xC7, 1) has read 0xC6, written the pair, waited, read it
\* back and returned OK.
C33_Witness ==
  /\ op = "customWrite"
  /\ arg = <<12 * 16 + 7, 1>>
  /\ Len(log) = 9
  /\ IsDirectWrite(log[3], 12 * 16 + 6)
  /\ IsDirectWrite(log[4], 12 * 16 + 7)
  /\ log[4][4] = 1
  /\ log[5][1] = "SLEEP"
  /\ ok(ret)

-----------------------------------------------------------------------------
(* EE871.cpp: writeOperatingMode *)

\* C34 as stated: writeOperatingMode(mode) with mode > 0x03 returns
\* OUT_OF_RANGE and performs no bus I/O, for every content of the cached
\* mode-support byte.
C34_AsStated ==
  [][ op' = "writeOperatingMode" /\ arg'[1] > 3
      => ret'.code = "OUT_OF_RANGE" /\ NoBusIo' ]_vars

\* A requested bit (bit 0: low power, bit 1: E2 priority) whose cached
\* support flag is clear.
ModeBitUnsupported(d, mode) ==
  \/ mode % 2 = 1 /\ ~hasLowPowerMode(d)
  \/ (mode \div 2) % 2 = 1 /\ ~hasE2Priority(d)

\* C34: writeOperatingMode(mode) tests the requested bits 0 and 1 against
\* the cached support flags first and returns NOT_SUPPORTED, with no bus
\* I/O, when one of them is unsupported, whatever the higher bits; otherwise
\* mode > 0x03 returns OUT_OF_RANGE with detail mode and no bus I/O; and
\* otherwise, on an initialised driver, it performs the verified custom
\* write of mode to 0xD8.
C34_GateBeforeRange ==
  [][ op' = "writeOperatingMode"
      => /\ ModeBitUnsupported(drv, arg'[1])
              => ret'.code = "NOT_SUPPORTED" /\ NoBusIo' /\ drv' = drv
         /\ ~ModeBitUnsupported(drv, arg'[1]) /\ arg'[1] > 3
              => /\ ret'.code = "OUT_OF_RANGE"
                 /\ ret'.detail = arg'[1]
                 /\ NoBusIo'
                 /\ drv' = drv
         /\ ~ModeBitUnsupported(drv, arg'[1]) /\ arg'[1] <= 3 /\ drv.initialized
              => /\ Len(log') >= 1
                 /\ IsPrefix(log', VerifiedWrite(drv.config, 13 * 16 + 8, arg'[1]))
                 /\ OnlyLastFailed(wire')
                 /\ ret'.code \notin {"OUT_OF_RANGE", "NOT_SUPPORTED"}
                 /\ ok(ret') => Len(log') = 4 /\ Count(wire', "FAILED") = 0 ]_vars

\* writeOperatingMode(5) was rejected as out of range, with no bus I/O, on
\* an initialised driver whose cache has the low-power flag.
C34_Witness ==
  /\ op = "writeOperatingMode"
  /\ arg[1] = 5
  /\ drv.initialized
  /\ hasLowPowerMode(drv)
  /\ ret.code = "OUT_OF_RANGE"
  /\ NoBusIo

-----------------------------------------------------------------------------
(* EE871.cpp: readU16 *)

\* The low and the high main command nibble of the 16-bit value a call
\* reads, and the value the device holds.
U16Nibbles(name) ==
  CASE name = "readGroup" -> <<1, 4>>
    [] name = "readCo2Fast" -> <<12, 13>>
    [] name = "readCo2Average" -> <<14, 15>>

U16Held(name, device) ==
  IF name = "readGroup" THEN device.group
  ELSE device.mem[U16Nibbles(name)[1]] + device.mem[U16Nibbles(name)[2]] * 256

\* C35: readGroup, readCo2Fast and readCo2Average on an initialised driver
\* read the low nibble and then, only if that frame succeeded, the high
\* nibble, each as a tracked transaction (one success or one failure
\* counted per frame, up to saturation); when both succeeded the value is
\* low | high << 8, readCo2Fast and readCo2Average return OK, and a
\* successful readCo2Average has raised total-success by exactly 2.
C35_LowThenHigh ==
  [][ op' \in {"readGroup", "readCo2Fast", "readCo2Average"} /\ drv.initialized
      => \E lo \in {U16Nibbles(op')[1] * 16 + drv.config.deviceAddress * 2 + 1},
            hi \in {U16Nibbles(op')[2] * 16 + drv.config.deviceAddress * 2 + 1} :
           /\ Len(log') >= 1
           /\ IsPrefix(log', << <<"READ", lo, 0, 0>>, <<"READ", hi, 0, 0>> >>)
           /\ OnlyLastFailed(wire')
           /\ Count(wire', "FRAME") = Len(log')
           /\ Len(log') = 1 => Count(wire', "FAILED") = 1
           /\ drv'.totalSuccess
                = Min(Uint32Max,
                      drv.totalSuccess + Len(log') - Count(wire', "FAILED"))
           /\ drv'.totalFailures
                = Min(Uint32Max, drv.totalFailures + Count(wire', "FAILED"))
           /\ Count(wire', "FAILED") = 1 => ~ok(ret')
           /\ Count(wire', "FAILED") = 0
                => /\ arg'[2] = U16Held(op', sensor)
                   /\ op' # "readGroup" => ok(ret')
           /\ op' = "readCo2Average" /\ ok(ret')
                => drv'.totalSuccess = Min(Uint32Max, drv.totalSuccess + 2) ]_vars

\* readCo2Average has read low 0xE8 and high 0x03, handed back 1000, and
\* total-success went from 0 to 2.
C35_Witness ==
  /\ op = "readCo2Average"
  /\ ok(ret)
  /\ arg[2] = 1000
  /\ sensor.mem[14] = 232 /\ sensor.mem[15] = 3
  /\ Len(log) = 2
  /\ drv.totalSuccess = 2

-----------------------------------------------------------------------------
(* EE871.cpp: busReset on the lines *)

\* C36 as stated: busReset on an initialised driver returns BUS_STUCK only
\* if a line still reads low: it returns OK exactly when the last sample it
\* took of SCL and the last it took of SDA read high, so that an SCL that
\* rises exactly when the wait budget of a pulse is used up is not reported
\* as stuck.
C36_AsStated ==
  op = "busReset" /\ ret.code = "BUS_STUCK"
  => pins.sclRead = "low" \/ pins.sdaRead = "low"

\* The part of C36 that holds: busReset returns OK exactly when its idle
\* test at the end read both lines high, and BUS_STUCK before that test
\* only from a pulse whose wait loop had used up bitTimeoutUs, whatever
\* the last readScl of that loop returned.
C36_StuckByBudget ==
  op = "busReset"
  => /\ ok(ret) <=> pins.sclRead = "high" /\ pins.sdaRead = "high"
     /\ ~ok(ret) => /\ ret.code = "BUS_STUCK"
                    /\ pins.sda /\ pins.scl
     /\ ret.msg = "SCL stuck during reset" => pins.sdaRead = "none"
     /\ ret.msg = "Bus stuck after reset"
          => pins.sclRead = "low" \/ pins.sdaRead = "low"

\* C37: while the driver is not initialised, no public method other than
\* begin invokes a HAL callback (set-line, read-line or delay), whatever its
\* arguments and whatever the feature cache holds.
C37_NoHalWhenUninit ==
  [][ (~drv.initialized /\ op' \notin {"none", "begin"})
      => /\ ~hal'
         /\ wire' = <<>>
         /\ log' = <<>> ]_vars

\* readErrorCode was called on a driver that end() left uninitialised with
\* the error-code bit still set in its feature cache: the gate is open, the
\* call returned NOT_INITIALIZED and no callback was invoked.
C37_Witness ==
  /\ op = "readErrorCode"
  /\ ~drv.initialized
  /\ hasErrorCode(drv)
  /\ drv.operatingModeSupport # 0
  /\ ret.code = "NOT_INITIALIZED"
  /\ ~hal
  /\ wire = <<>>
  /\ log = <<>>

\* The methods of which LineSpec follows every HAL callback.
LineOps == {"_readControlByteRaw", "_writeCommandRaw", "busReset"}

\* C38 as stated: whenever an operation returns, with success or with any
\* error, the last setScl and the last setSda the master made both had
\* level true, also when the wait of a STOP itself timed out.
C38_AsStated ==
  op \in LineOps => pins.sda /\ pins.scl

\* The part of C38 that holds: at every return the master has released SCL,
\* and it has released SDA unless the last readScl of the call, that of the
\* wait inside e2Stop, returned low; busReset, whose STOP does not wait,
\* returns with both lines released in every case.
C38_ReleasedUnlessStopTimeout ==
  op \in LineOps
  => /\ pins.scl
     /\ pins.sclRead # "low" => pins.sda
     /\ op = "busReset" => pins.sda

\* C39 as stated: recover returns OK if and only if the state after it is
\* READY; whenever it returns an error on an initialised driver the state is
\* DEGRADED or OFFLINE and the consecutive-failure count is non-zero.
C39_AsStated ==
  (op = "recover" /\ drv.initialized)
  => /\ ok(ret) <=> drv.driverState = "READY"
     /\ ~ok(ret) => /\ drv.driverState \in {"DEGRADED", "OFFLINE"}
                    /\ drv.consecutiveFailures > 0

\* The part of C39 that holds: after recover returns OK the state is READY
\* with no consecutive failure; after it returns the failure of a frame the
\* state is DEGRADED or OFFLINE with the count non-zero; its only other
\* result is DEVICE_NOT_FOUND, returned after two reads that succeeded,
\* with the state READY and the count zero.
C39_ErrorAfterSuccess ==
  (op = "recover" /\ drv.initialized)
  => /\ ok(ret) => (drv.driverState = "READY" /\ drv.consecutiveFailures = 0)
     /\ ret.code \in {"TIMEOUT", "NACK", "PEC_MISMATCH"}
          => /\ drv.driverState \in {"DEGRADED", "OFFLINE"}
             /\ drv.consecutiveFailures > 0
     /\ ret.code \in {"OK", "TIMEOUT", "NACK", "PEC_MISMATCH", "DEVICE_NOT_FOUND"}
     /\ ret.code = "DEVICE_NOT_FOUND"
          => /\ drv.driverState = "READY"
             /\ drv.consecutiveFailures = 0
             /\ ret.detail # SENSOR_GROUP_ID

\* C40: every public method stops issuing transactions at its first failed
\* one and never retries: no frame follows a failed frame, a call raises
\* total-failure and the consecutive-failure count by at most 1, and below
\* saturation the frames of a tracked method are counted one for one, a
\* frame that succeeded in total-success and the failed one in
\* total-failure.
C40_StopsAtFirstFailure ==
  [][ op' # "none"
      => /\ Count(wire', "FAILED") <= 1
         /\ OnlyLastFailed(wire')
         /\ Count(wire', "FAILED") = 1
              => FrameMarks(wire')[Len(FrameMarks(wire'))] = "FAILED"
         /\ drv'.totalFailures <= drv.totalFailures + 1
         /\ drv'.consecutiveFailures <= drv.consecutiveFailures + 1
         /\ (/\ IsTracked(op')
             /\ drv.totalSuccess + Count(wire', "FRAME") <= Uint32Max
             /\ drv.totalFailures + 1 <= Uint32Max)
              => /\ drv'.totalFailures
                      = drv.totalFailures + Count(wire', "FAILED")
                 /\ drv'.totalSuccess
                      = drv.totalSuccess + Count(wire', "FRAME")
                          - Count(wire', "FAILED") ]_vars

\* writeMeasurementInterval right after begin: its first write succeeded,
\* its second failed and nothing followed; one success and one failure are
\* counted.
C40_Witness ==
  /\ op = "writeMeasurementInterval"
  /\ FrameMarks(wire) = <<"FRAME", "FRAME", "FAILED">>
  /\ IsTransactionFailure(ret)
  /\ drv.totalSuccess = 1
  /\ drv.totalFailures = 1
  /\ drv.consecutiveFailures = 1

====
